---------------------------- MODULE Spec2Model ----------------------------
(***************************************************************************)
(* Model of the ingestion pipeline of smart-grade-nexus:                   *)
(*   src/app/services/job_registry.py  (JobRegistry, the job_registry      *)
(*                                      singleton)                         *)
(*   src/app/services/ingestion.py     (IngestionService.process_document, *)
(*                                      _run_ingestion, parse_pdf,         *)
(*                                      parse_pdf_ai, _process_batch,      *)
(*                                      delete_book)                       *)
(*                                                                         *)
(* Scheduling.  All coroutines run on one asyncio event loop, so the code  *)
(* between two suspension points runs without interleaving.  The variable  *)
(* cpu holds the run whose coroutine is executing; it is empty when the    *)
(* loop is free.  A coroutine suspends only where the code awaits          *)
(* something that yields to the loop: asyncio.to_thread (page count,       *)
(* opening the document, OCR / vision transcription of a page, embedding)  *)
(* and asyncio.sleep (back-off between insert attempts).  `await           *)
(* self.delete_book(...)` and the supabase insert are synchronous calls    *)
(* and do not suspend.  Requests from outside (a new upload, a cancel      *)
(* request) are served only while the loop is free.                        *)
(*                                                                         *)
(* Besides the ingestion runs (Spec), the module has one specification per *)
(* component that is studied on its own: the registry driven through its   *)
(* public methods (RegSpec), one call after another of _process_batch with *)
(* its embedding tasks (BatchSpec), generate_with_retry of                 *)
(* src/app/services/agents.py (GenSpec), chunk_text (ChunkSpec),           *)
(* search_knowledge_base of agents.py (SearchSpec) and parse_pdf with the  *)
(* registry (ParseSpec).  Each specification moves its own variables and   *)
(* leaves the others at rest.                                              *)
(*                                                                         *)
(* Left out: last_updated (a wall-clock stamp nothing reads), the text of  *)
(* pages and chunks (a window is identified by its page range; the list   *)
(* of embedded chunks of one window, inserted by one call, is one row of   *)
(* store, and total_chunks counts these rows), pages whose text is blank.  *)
(***************************************************************************)
EXTENDS Integers, FiniteSets, Sequences, TLC

\* ------------------------------------------------------------------ bounds
\* Largest document, in pages.
MaxPages == 2

\* settings.INGESTION_BATCH_SIZE (src/app/core/config.py:32; default 5, read
\* from the environment).  The model runs a configuration with small windows
\* so that documents of up to MaxPages pages have full windows and final
\* partial ones.
INGESTION_BATCH_SIZE == 2

\* _process_batch(..., retries: int = 3): attempts of the store insert.
retries == 3

Runs == {1, 2}
Keys == {"A", "B"}
\* Book names are interchangeable: the first upload is the one named "A".
FirstKey == "A"
Modes == {"ai", "standard"}
NoError == ""

VARIABLES
    jobs,    \* JobRegistry._jobs: book_name -> record (a dict: its domain grows)
    store,   \* rows of the "documents" table of the vector store
    pc,      \* per run: where its background task stands
    run,     \* per run: arguments and locals of process_document/_run_ingestion
    cpu,     \* the run whose coroutine holds the event loop: {r}, or {}
    sem,     \* _process_batch: value of its asyncio.Semaphore
    task,    \* _process_batch: per chunk index, the state of its _proc_chunk task
    batch,   \* _process_batch: position and locals of the call
    gen,     \* generate_with_retry: arguments, position and locals of the call
    chunker, \* chunk_text: arguments, position and locals of the call
    search,  \* search_knowledge_base: arguments, position and locals of the call
    parser   \* parse_pdf: arguments, position and locals of the generator

vars ==
    <<jobs, store, pc, run, cpu, sem, task, batch, gen, chunker, search, parser>>

\* --------------------------------------------------------------- registry
\* A faulty start_job that updates the record it finds instead of replacing
\* it, so the cancel flag and the error of the previous run stay.
start_job_update(J, book_name, total_pages) ==
    [k \in DOMAIN J \cup {book_name} |->
        IF k # book_name THEN J[k]
        ELSE IF k \in DOMAIN J
        THEN [J[k] EXCEPT !.status = "processing", !.current_page = 0,
                          !.total_pages = total_pages]
        ELSE [status |-> "processing", current_page |-> 0,
              total_pages |-> total_pages, cancelled |-> FALSE,
              error |-> NoError]]

\* JobRegistry.start_job: the record of book_name is replaced by a new one.
start_job(J, book_name, total_pages) ==
    [k \in DOMAIN J \cup {book_name} |->
        IF k = book_name
        THEN [status |-> "processing", current_page |-> 0,
              total_pages |-> total_pages, cancelled |-> FALSE,
              error |-> NoError]
        ELSE J[k]]

\* A faulty update_progress that rebuilds the record instead of updating it.
update_progress_rebuild(J, book_name, current_page) ==
    IF book_name \in DOMAIN J
    THEN [J EXCEPT ![book_name] =
            [status |-> "processing", current_page |-> current_page,
             total_pages |-> J[book_name].total_pages, cancelled |-> FALSE,
             error |-> NoError]]
    ELSE J

\* JobRegistry.update_progress
update_progress(J, book_name, current_page) ==
    IF book_name \in DOMAIN J
    THEN [J EXCEPT ![book_name].current_page = current_page]
    ELSE J

\* A faulty complete_job that stores a record for a key it does not know.
complete_job_upsert(J, book_name) ==
    [k \in DOMAIN J \cup {book_name} |->
        IF k # book_name THEN J[k]
        ELSE IF k \in DOMAIN J THEN [J[k] EXCEPT !.status = "completed"]
        ELSE [status |-> "completed", current_page |-> 0, total_pages |-> 0,
              cancelled |-> FALSE, error |-> NoError]]

\* JobRegistry.complete_job
complete_job(J, book_name) ==
    IF book_name \in DOMAIN J
    THEN [J EXCEPT ![book_name].status = "completed"]
    ELSE J

\* A faulty fail_job that also clears the cancel flag.
fail_job_clears(J, book_name, error) ==
    IF book_name \in DOMAIN J
    THEN [J EXCEPT ![book_name].status = "failed",
                   ![book_name].error = error,
                   ![book_name].cancelled = FALSE]
    ELSE J

\* JobRegistry.fail_job
fail_job(J, book_name, error) ==
    IF book_name \in DOMAIN J
    THEN [J EXCEPT ![book_name].status = "failed",
                   ![book_name].error = error]
    ELSE J

\* JobRegistry.cancel_job: the registry after the call
cancel_job(J, book_name) ==
    IF book_name \in DOMAIN J
    THEN [J EXCEPT ![book_name].cancelled = TRUE,
                   ![book_name].status = "cancelling"]
    ELSE J

\* JobRegistry.cancel_job: the value returned
cancel_job_result(J, book_name) == book_name \in DOMAIN J

\* JobRegistry.is_cancelled
is_cancelled(J, book_name) ==
    IF book_name \in DOMAIN J THEN J[book_name].cancelled ELSE FALSE

\* JobRegistry.get_status: self._jobs.get(book_name), the record or None.
\* The optional value is a set: empty for None.
get_status(J, book_name) ==
    IF book_name \in DOMAIN J THEN {J[book_name]} ELSE {}

\* ----------------------------------------------------------- vector store
\* A faulty delete_book whose filter matches nothing.
delete_book_nothing(S, book_name) == S

\* IngestionService.delete_book: delete().eq("metadata->>book_name", book_name)
delete_book(S, book_name) == {c \in S : c.book # book_name}

\* ------------------------------------------------------------------- ingestion
IdleRun ==
    [key |-> "", n |-> 0, mode |-> "standard", ocr |-> FALSE,
     i |-> 0, b |-> 0, kind |-> "text", final |-> FALSE,
     attempt |-> 0, total_chunks |-> 0, err |-> NoError,
     \* history, not read by the program
     observed |-> FALSE, dropped |-> FALSE, result |-> "none", pred |-> {},
     asked |-> FALSE]

\* The task has ended: its locals are gone; what is kept is the key it worked
\* on, how it ended and (history) which runs had ended when it was requested.
Ended(rec, result) ==
    [IdleRun EXCEPT !.key = rec.key, !.total_chunks = rec.total_chunks,
                    !.result = result, !.pred = rec.pred]

\* No call of _process_batch, generate_with_retry or chunk_text is under study.
NoBatch ==
    [pc |-> "idle", records |-> << >>, attempt |-> 0, ret |-> 0,
     \* history, not read by the program
     acked |-> FALSE, stored |-> << >>]
NoGen ==
    [pc |-> "idle", retries |-> 0, delay |-> 0, attempt |-> 0, result |-> "none",
     \* history: calls of the model, what each ended with, the sleeps taken
     calls |-> 0, outcomes |-> << >>, slept |-> << >>]
NoChunker ==
    [pc |-> "idle", text |-> << >>, chunk_size |-> 0, overlap |-> 0,
     raw_parts |-> << >>, i |-> 0, current_chunk |-> << >>,
     final_chunks |-> << >>]
NoTasks == << >>
\* No call of search_knowledge_base or parse_pdf is under study.
NoSearch ==
    [pc |-> "idle", query |-> << >>, subject |-> << >>, limit |-> 0,
     filter |-> "None", kb |-> << >>, search_subjects |-> << >>, s |-> 0,
     results |-> << >>, docs |-> << >>, top_docs |-> << >>, context |-> << >>]
NoParser ==
    [pc |-> "idle", doc |-> << >>, book_name |-> "", total_pages |-> 0,
     text_stripped |-> << >>, use_ocr |-> FALSE, i |-> 0, pages |-> << >>]

BatchAtRest == sem = 0 /\ task = NoTasks /\ batch = NoBatch
GenAtRest == gen = NoGen
ChunkerAtRest == chunker = NoChunker
SearchAtRest == search = NoSearch
ParserAtRest == parser = NoParser

\* No upload has been requested and the registry and the store are empty.
RunsAtRest ==
    /\ jobs = [k \in {} |-> 0]
    /\ store = {}
    /\ pc = [r \in Runs |-> "idle"]
    /\ run = [r \in Runs |-> IdleRun]
    /\ cpu = {}

Init ==
    /\ RunsAtRest
    /\ BatchAtRest
    /\ GenAtRest
    /\ ChunkerAtRest
    /\ SearchAtRest
    /\ ParserAtRest

key(r) == run[r].key

\* First and last page of the window _process_batch is working on.
WindowLo(r) == IF run[r].mode = "ai" THEN run[r].i ELSE run[r].i - run[r].b + 1
WindowHi(r) == run[r].i

\* The records list handed to supabase.table("documents").insert: the
\* embedded chunks of the window, with metadata.book_name, tagged (history)
\* with the run that produced them.
Rows(r) ==
    {[book |-> key(r), run |-> r, lo |-> WindowLo(r), hi |-> WindowHi(r)]}

\* process_document: derive the key and the mode, queue _run_ingestion on the
\* BackgroundTasks object and return {"status": "processing", ...}.
Ingest(r, k, n, m) ==
    /\ cpu = {}
    /\ pc[r] = "idle"
    /\ \A q \in Runs : q < r => pc[q] # "idle"
    /\ r = 1 => k = FirstKey
    /\ run' = [run EXCEPT ![r] = [IdleRun EXCEPT !.key = k, !.n = n, !.mode = m,
                                     !.pred = {q \in Runs : pc[q] = "done"}]]
    /\ pc' = [pc EXCEPT ![r] = "queued"]
    /\ UNCHANGED <<jobs, store, cpu>>

\* The background task has started and suspended in
\* to_thread(_get_page_count), which returns the page count or raises.
PageCount(r, ok) ==
    /\ cpu = {}
    /\ pc[r] = "queued"
    /\ cpu' = {r}
    /\ IF ok
       THEN /\ pc' = [pc EXCEPT ![r] = "start"]
            /\ run' = run
       ELSE /\ pc' = [pc EXCEPT ![r] = "except"]
            /\ run' = [run EXCEPT ![r].err = "page_count"]
    /\ UNCHANGED <<jobs, store>>

\* job_registry.start_job(book_name, total_pages)
StartJob(r) ==
    /\ cpu = {r}
    /\ pc[r] = "start"
    /\ jobs' = start_job(jobs, key(r), run[r].n)
    /\ pc' = [pc EXCEPT ![r] = "delete"]
    /\ UNCHANGED <<store, run, cpu>>

\* A faulty run that goes on to the pages when delete_book has raised.
DeleteBookGoesOn(r, ok) ==
    /\ cpu = {r}
    /\ pc[r] = "delete"
    /\ store' = IF ok THEN delete_book(store, key(r)) ELSE store
    /\ pc' = [pc EXCEPT ![r] = "open"]
    /\ cpu' = {}
    /\ run' = IF ok THEN run ELSE [run EXCEPT ![r].err = "delete"]
    /\ UNCHANGED jobs

\* await self.delete_book(book_name); then the async for enters the page
\* generator, which suspends in to_thread(_get_doc).
DeleteBook(r, ok) ==
    /\ cpu = {r}
    /\ pc[r] = "delete"
    /\ IF ok
       THEN /\ store' = delete_book(store, key(r))
            /\ pc' = [pc EXCEPT ![r] = "open"]
            /\ cpu' = {}
            /\ run' = run
       ELSE /\ store' = store
            /\ pc' = [pc EXCEPT ![r] = "except"]
            /\ cpu' = cpu
            /\ run' = [run EXCEPT ![r].err = "delete"]
    /\ UNCHANGED jobs

\* parse_pdf / parse_pdf_ai after the document is open.  parse_pdf samples
\* the text and decides once whether to OCR; an empty document has an empty
\* sample, which is "too short".
OpenDoc(r, ocr) ==
    /\ cpu = {}
    /\ pc[r] = "open"
    /\ run[r].mode = "ai" => ~ocr
    /\ (run[r].mode = "standard" /\ run[r].n = 0) => ocr
    /\ run' = [run EXCEPT ![r].ocr = ocr]
    /\ pc' = [pc EXCEPT ![r] = "loop"]
    /\ cpu' = {r}
    /\ UNCHANGED <<jobs, store>>

\* Where _run_ingestion goes when its async for ends (generator exhausted or
\* break): standard mode has the "remaining pages" step, AI mode has not.
AfterLoop(r) == IF run[r].mode = "ai" THEN "finish" ELSE "final"

\* Head of the page loop of parse_pdf (OCR and text branch) and parse_pdf_ai.
LoopHead(r) ==
    /\ cpu = {r}
    /\ pc[r] = "loop"
    /\ UNCHANGED <<jobs, store>>
    /\ IF run[r].i >= run[r].n
       THEN \* generator exhausted: doc.close()
            /\ pc' = [pc EXCEPT ![r] = AfterLoop(r)]
            /\ UNCHANGED <<run, cpu>>
       ELSE IF is_cancelled(jobs, key(r))
       THEN \* "Ingestion CANCELLED": break
            /\ pc' = [pc EXCEPT ![r] = AfterLoop(r)]
            /\ run' = [run EXCEPT ![r].observed = TRUE]
            /\ cpu' = cpu
       ELSE IF run[r].mode = "standard" /\ ~run[r].ocr
       THEN \* text branch: the page is at hand, no suspension
            /\ pc' = [pc EXCEPT ![r] = "progress"]
            /\ run' = [run EXCEPT ![r].i = @ + 1, ![r].kind = "text"]
            /\ cpu' = cpu
       ELSE \* to_thread(_ocr_page) / to_thread(_prep_page), to_thread(_gen)
            /\ pc' = [pc EXCEPT ![r] = "page"]
            /\ run' = run
            /\ cpu' = {}

PageOutcomes(r) ==
    IF run[r].mode = "ai" THEN {"instr", "front", "error", "raise"}
    ELSE {"text", "raise"}

\* The page comes back from the worker thread.
\*   OCR: the text, or pytesseract raises.
\*   AI:  the transcription of an instructional page ("instr") or of front
\*        matter ("front"); generate_content / json.loads raises, which
\*        parse_pdf_ai catches and answers with a placeholder page
\*        ("error"); _prep_page raises, which nothing in parse_pdf_ai
\*        catches ("raise").
PageDone(r, out) ==
    /\ cpu = {}
    /\ pc[r] = "page"
    /\ out \in PageOutcomes(r)
    /\ cpu' = {r}
    /\ UNCHANGED <<jobs, store>>
    /\ IF out = "raise"
       THEN /\ pc' = [pc EXCEPT ![r] = "except"]
            /\ run' = [run EXCEPT ![r].err = "extract"]
       ELSE IF out = "error"
       THEN /\ pc' = [pc EXCEPT ![r] = "body"]
            /\ run' = [run EXCEPT ![r].i = @ + 1, ![r].kind = out]
       ELSE /\ pc' = [pc EXCEPT ![r] = "progress"]
            /\ run' = [run EXCEPT ![r].i = @ + 1, ![r].kind = out]

\* job_registry.update_progress(book_name, i + 1); yield
UpdateProgress(r) ==
    /\ cpu = {r}
    /\ pc[r] = "progress"
    /\ jobs' = update_progress(jobs, key(r), run[r].i)
    /\ pc' = [pc EXCEPT ![r] = "body"]
    /\ UNCHANGED <<store, run, cpu>>

\* Body of the async for in _run_ingestion, up to the call of _process_batch,
\* which chunks the text and suspends in asyncio.gather over the embeddings.
Body(r) ==
    /\ cpu = {r}
    /\ pc[r] = "body"
    /\ UNCHANGED <<jobs, store>>
    /\ IF is_cancelled(jobs, key(r))
       THEN /\ pc' = [pc EXCEPT ![r] = AfterLoop(r)]
            /\ run' = [run EXCEPT ![r].observed = TRUE]
            /\ cpu' = cpu
       ELSE IF run[r].mode = "ai"
       THEN IF run[r].kind = "front"
            THEN \* not instructional: continue
                 /\ pc' = [pc EXCEPT ![r] = "loop"]
                 /\ UNCHANGED <<run, cpu>>
            ELSE /\ pc' = [pc EXCEPT ![r] = "embed"]
                 /\ cpu' = {}
                 /\ run' = run
       ELSE IF run[r].b + 1 >= INGESTION_BATCH_SIZE
            THEN /\ pc' = [pc EXCEPT ![r] = "embed"]
                 /\ cpu' = {}
                 /\ run' = [run EXCEPT ![r].b = @ + 1]
            ELSE /\ pc' = [pc EXCEPT ![r] = "loop"]
                 /\ cpu' = cpu
                 /\ run' = [run EXCEPT ![r].b = @ + 1]

\* A faulty return that leaves the window buffer as it is.
ReturnedKeepsBuffer(rec) ==
    [rec EXCEPT !.attempt = 0]

\* _process_batch returns to _run_ingestion: the window buffer is emptied and
\* the loop goes on, or, after the final window, the run finishes.
Returned(rec) ==
    [rec EXCEPT !.b = 0, !.attempt = 0]

AfterBatch(r) == IF run[r].final THEN "finish" ELSE "loop"

\* asyncio.gather returns: some tells whether any chunk was embedded within
\* its attempts.  With no record _process_batch returns 0 without inserting.
EmbedDone(r, some) ==
    /\ cpu = {}
    /\ pc[r] = "embed"
    /\ cpu' = {r}
    /\ UNCHANGED <<jobs, store>>
    /\ IF ~some
       THEN /\ pc' = [pc EXCEPT ![r] = AfterBatch(r)]
            /\ run' = [run EXCEPT ![r] = Returned(@)]
       ELSE /\ pc' = [pc EXCEPT ![r] = "insert"]
            /\ run' = [run EXCEPT ![r].attempt = 0]

\* One attempt of supabase.table("documents").insert(records).execute().
Insert(r, ok) ==
    /\ cpu = {r}
    /\ pc[r] = "insert"
    /\ UNCHANGED jobs
    /\ IF ok
       THEN /\ store' = store \cup Rows(r)
            /\ pc' = [pc EXCEPT ![r] = AfterBatch(r)]
            /\ run' = [run EXCEPT ![r] =
                         Returned([@ EXCEPT !.total_chunks = @ + 1])]
            /\ cpu' = cpu
       ELSE IF run[r].attempt = retries - 1
       THEN \* "Supabase insert failed for batch": return 0
            /\ store' = store
            /\ pc' = [pc EXCEPT ![r] = AfterBatch(r)]
            /\ run' = [run EXCEPT ![r] = Returned([@ EXCEPT !.dropped = TRUE])]
            /\ cpu' = cpu
       ELSE \* await asyncio.sleep(2 ** attempt)
            /\ store' = store
            /\ pc' = [pc EXCEPT ![r] = "sleep"]
            /\ run' = run
            /\ cpu' = {}

\* The back-off sleep ends; next attempt.
Wake(r) ==
    /\ cpu = {}
    /\ pc[r] = "sleep"
    /\ pc' = [pc EXCEPT ![r] = "insert"]
    /\ run' = [run EXCEPT ![r].attempt = @ + 1]
    /\ cpu' = {r}
    /\ UNCHANGED <<jobs, store>>

\* A faulty "remaining pages" step that does not look at the cancel flag.
FinalNoCheck(r) ==
    /\ cpu = {r}
    /\ pc[r] = "final"
    /\ UNCHANGED <<jobs, store>>
    /\ IF run[r].b > 0
       THEN /\ pc' = [pc EXCEPT ![r] = "embed"]
            /\ run' = [run EXCEPT ![r].final = TRUE]
            /\ cpu' = {}
       ELSE /\ pc' = [pc EXCEPT ![r] = "finish"]
            /\ UNCHANGED <<run, cpu>>

\* "Process remaining pages":
\*     if batch_text and not job_registry.is_cancelled(book_name)
Final(r) ==
    /\ cpu = {r}
    /\ pc[r] = "final"
    /\ UNCHANGED <<jobs, store>>
    /\ IF run[r].b > 0 /\ ~is_cancelled(jobs, key(r))
       THEN /\ pc' = [pc EXCEPT ![r] = "embed"]
            /\ run' = [run EXCEPT ![r].final = TRUE]
            /\ cpu' = {}
       ELSE /\ pc' = [pc EXCEPT ![r] = "finish"]
            /\ run' = [run EXCEPT ![r].observed =
                         @ \/ (run[r].b > 0 /\ is_cancelled(jobs, key(r)))]
            /\ cpu' = cpu

\* A faulty end of run that completes the job without looking at the flag.
FinishNoCheck(r) ==
    /\ cpu = {r}
    /\ pc[r] = "finish"
    /\ jobs' = complete_job(jobs, key(r))
    /\ run' = [run EXCEPT ![r] = Ended(@, "completed")]
    /\ pc' = [pc EXCEPT ![r] = "done"]
    /\ cpu' = {}
    /\ UNCHANGED store

\* End of _run_ingestion: "INGESTION STOPPED (Cancelled)" or complete_job.
Finish(r) ==
    /\ cpu = {r}
    /\ pc[r] = "finish"
    /\ IF is_cancelled(jobs, key(r))
       THEN /\ jobs' = jobs
            /\ run' = [run EXCEPT ![r] = Ended(@, "stopped")]
       ELSE /\ jobs' = complete_job(jobs, key(r))
            /\ run' = [run EXCEPT ![r] = Ended(@, "completed")]
    /\ pc' = [pc EXCEPT ![r] = "done"]
    /\ cpu' = {}
    /\ UNCHANGED store

\* except Exception as e: job_registry.fail_job(book_name, str(e))
Except(r) ==
    /\ cpu = {r}
    /\ pc[r] = "except"
    /\ jobs' = fail_job(jobs, key(r), run[r].err)
    /\ run' = [run EXCEPT ![r] = Ended(@, "failed")]
    /\ pc' = [pc EXCEPT ![r] = "done"]
    /\ cpu' = {}
    /\ UNCHANGED store

\* A cancel request from outside: job_registry.cancel_job(book_name).
Cancel(k) ==
    /\ cpu = {}
    /\ jobs' = cancel_job(jobs, k)
    /\ UNCHANGED <<store, pc, run, cpu>>

\* The variables the ingestion runs do not touch.
others == <<sem, task, batch, gen, chunker, search, parser>>

Next ==
    \/ \E r \in Runs, k \in Keys, n \in 0..MaxPages, m \in Modes : Ingest(r, k, n, m) /\ UNCHANGED others
    \/ \E r \in Runs, ok \in BOOLEAN : PageCount(r, ok) /\ UNCHANGED others
    \/ \E r \in Runs : StartJob(r) /\ UNCHANGED others
    \/ \E r \in Runs, ok \in BOOLEAN : DeleteBook(r, ok) /\ UNCHANGED others
    \/ \E r \in Runs, ocr \in BOOLEAN : OpenDoc(r, ocr) /\ UNCHANGED others
    \/ \E r \in Runs : LoopHead(r) /\ UNCHANGED others
    \/ \E r \in Runs, out \in {"text", "instr", "front", "error", "raise"} : PageDone(r, out) /\ UNCHANGED others
    \/ \E r \in Runs : UpdateProgress(r) /\ UNCHANGED others
    \/ \E r \in Runs : Body(r) /\ UNCHANGED others
    \/ \E r \in Runs, some \in BOOLEAN : EmbedDone(r, some) /\ UNCHANGED others
    \/ \E r \in Runs, ok \in BOOLEAN : Insert(r, ok) /\ UNCHANGED others
    \/ \E r \in Runs : Wake(r) /\ UNCHANGED others
    \/ \E r \in Runs : Final(r) /\ UNCHANGED others
    \/ \E r \in Runs : Finish(r) /\ UNCHANGED others
    \/ \E r \in Runs : Except(r) /\ UNCHANGED others
    \/ \E k \in Keys : Cancel(k) /\ UNCHANGED others

Spec == Init /\ [][Next]_vars

\* ------------------------------------- the runs with noted cancel requests
\* The ingestion runs as in Spec, with one more piece of history: a cancel
\* request that cancel_job answers with True is noted (asked) in every run
\* that has created a record under that key and has not ended.

\* job_registry.cancel_job(book_name), noted in the runs it is meant for.
CancelNoted(k) ==
    /\ cpu = {}
    /\ jobs' = cancel_job(jobs, k)
    /\ run' = [r \in Runs |->
                IF /\ cancel_job_result(jobs, k)
                   /\ run[r].key = k
                   /\ pc[r] \notin {"idle", "queued", "start", "done"}
                   /\ run[r].err # "page_count"
                THEN [run[r] EXCEPT !.asked = TRUE]
                ELSE run[r]]
    /\ UNCHANGED <<store, pc, cpu>>

CancelNext ==
    \/ \E r \in Runs, k \in Keys, n \in 0..MaxPages, m \in Modes : Ingest(r, k, n, m) /\ UNCHANGED others
    \/ \E r \in Runs, ok \in BOOLEAN : PageCount(r, ok) /\ UNCHANGED others
    \/ \E r \in Runs : StartJob(r) /\ UNCHANGED others
    \/ \E r \in Runs, ok \in BOOLEAN : DeleteBook(r, ok) /\ UNCHANGED others
    \/ \E r \in Runs, ocr \in BOOLEAN : OpenDoc(r, ocr) /\ UNCHANGED others
    \/ \E r \in Runs : LoopHead(r) /\ UNCHANGED others
    \/ \E r \in Runs, out \in {"text", "instr", "front", "error", "raise"} : PageDone(r, out) /\ UNCHANGED others
    \/ \E r \in Runs : UpdateProgress(r) /\ UNCHANGED others
    \/ \E r \in Runs : Body(r) /\ UNCHANGED others
    \/ \E r \in Runs, some \in BOOLEAN : EmbedDone(r, some) /\ UNCHANGED others
    \/ \E r \in Runs, ok \in BOOLEAN : Insert(r, ok) /\ UNCHANGED others
    \/ \E r \in Runs : Wake(r) /\ UNCHANGED others
    \/ \E r \in Runs : Final(r) /\ UNCHANGED others
    \/ \E r \in Runs : Finish(r) /\ UNCHANGED others
    \/ \E r \in Runs : Except(r) /\ UNCHANGED others
    \/ \E k \in Keys : CancelNoted(k) /\ UNCHANGED others

CancelSpec == Init /\ [][CancelNext]_vars

\* ------------------------------------- one standard run, never cancelled
\* One upload in standard mode of a document of up to MaxWindowPages pages,
\* long enough for several windows, and no cancel request.
MaxWindowPages == 5

WindowNext ==
    \/ \E n \in 0..MaxWindowPages : Ingest(1, FirstKey, n, "standard") /\ UNCHANGED others
    \/ \E ok \in BOOLEAN : PageCount(1, ok) /\ UNCHANGED others
    \/ StartJob(1) /\ UNCHANGED others
    \/ \E ok \in BOOLEAN : DeleteBook(1, ok) /\ UNCHANGED others
    \/ \E ocr \in BOOLEAN : OpenDoc(1, ocr) /\ UNCHANGED others
    \/ LoopHead(1) /\ UNCHANGED others
    \/ \E out \in {"text", "raise"} : PageDone(1, out) /\ UNCHANGED others
    \/ UpdateProgress(1) /\ UNCHANGED others
    \/ Body(1) /\ UNCHANGED others
    \/ \E some \in BOOLEAN : EmbedDone(1, some) /\ UNCHANGED others
    \/ \E ok \in BOOLEAN : Insert(1, ok) /\ UNCHANGED others
    \/ Wake(1) /\ UNCHANGED others
    \/ Final(1) /\ UNCHANGED others
    \/ Finish(1) /\ UNCHANGED others
    \/ Except(1) /\ UNCHANGED others

WindowSpec == Init /\ [][WindowNext]_vars

\* ------------------------------------------------ the runs, fairly scheduled
\* One step of the background task r.  The event loop resumes every ready
\* coroutine, and every awaited call (worker thread, embedding, insert,
\* sleep) returns or raises in finite time, so a step of the task that stays
\* possible is eventually taken.  Requests from outside (process_document,
\* cancel_job) are under no such obligation.
TaskStep(r) ==
    \/ \E ok \in BOOLEAN : PageCount(r, ok) /\ UNCHANGED others
    \/ StartJob(r) /\ UNCHANGED others
    \/ \E ok \in BOOLEAN : DeleteBook(r, ok) /\ UNCHANGED others
    \/ \E ocr \in BOOLEAN : OpenDoc(r, ocr) /\ UNCHANGED others
    \/ LoopHead(r) /\ UNCHANGED others
    \/ \E out \in {"text", "instr", "front", "error", "raise"} :
          PageDone(r, out) /\ UNCHANGED others
    \/ UpdateProgress(r) /\ UNCHANGED others
    \/ Body(r) /\ UNCHANGED others
    \/ \E some \in BOOLEAN : EmbedDone(r, some) /\ UNCHANGED others
    \/ \E ok \in BOOLEAN : Insert(r, ok) /\ UNCHANGED others
    \/ Wake(r) /\ UNCHANGED others
    \/ Final(r) /\ UNCHANGED others
    \/ Finish(r) /\ UNCHANGED others
    \/ Except(r) /\ UNCHANGED others

LiveSpec == Init /\ [][Next]_vars /\ \A r \in Runs : WF_vars(TaskStep(r))

\* ------------------------------------------------- the registry on its own
\* The registry driven through its public methods by any caller, one call at
\* a time (the methods have no suspension point).  The run variables stay at
\* rest.
Errors == {"page_count", "delete", "extract"}

ApiStartJob(k, n) ==
    /\ jobs' = start_job(jobs, k, n)
    /\ UNCHANGED <<store, pc, run, cpu, others>>

ApiUpdateProgress(k, p) ==
    /\ jobs' = update_progress(jobs, k, p)
    /\ UNCHANGED <<store, pc, run, cpu, others>>

ApiCompleteJob(k) ==
    /\ jobs' = complete_job(jobs, k)
    /\ UNCHANGED <<store, pc, run, cpu, others>>

ApiFailJob(k, e) ==
    /\ jobs' = fail_job(jobs, k, e)
    /\ UNCHANGED <<store, pc, run, cpu, others>>

ApiCancelJob(k) ==
    /\ jobs' = cancel_job(jobs, k)
    /\ UNCHANGED <<store, pc, run, cpu, others>>

RegNext ==
    \/ \E k \in Keys, n \in 0..MaxPages : ApiStartJob(k, n)
    \/ \E k \in Keys, p \in 0..MaxPages : ApiUpdateProgress(k, p)
    \/ \E k \in Keys : ApiCompleteJob(k)
    \/ \E k \in Keys, e \in Errors : ApiFailJob(k, e)
    \/ \E k \in Keys : ApiCancelJob(k)

RegSpec == Init /\ [][RegNext]_vars

\* ------------------------------------------------ _process_batch on its own
\* One ingestion run calls _process_batch for one window after the other and
\* awaits each call, so the calls of a run do not overlap.  A call chunks the
\* text of the window, creates its semaphore, starts one _proc_chunk task per
\* chunk, gathers the results and inserts the records.  The tasks run on the
\* event loop: a task is suspended while it waits for the semaphore, while
\* get_embedding runs in the thread pool and while it sleeps.  chunk_text
\* returns no blank chunk, so the test `if not chunk.strip()` never applies.

\* Most chunks chunk_text returns for the text of one window.
MaxChunks == 3

\* settings.MAX_EMBEDDING_CONCURRENCY (src/app/core/config.py:33; default 10,
\* read from the environment).  The model runs a configuration with fewer
\* permits than a window has chunks.
MAX_EMBEDDING_CONCURRENCY == 2

ingestion == <<jobs, store, pc, run, cpu>>

\* A _proc_chunk task about to enter its first attempt.
NewTask ==
    [st |-> "ready", attempt |-> 0, delay |-> 0,
     \* history: the attempts that raised
     fails |-> 0]

\* A faulty numbering that counts the records instead of the chunks.
EmbeddedRenumbered(T) ==
    [j \in 1..Cardinality({c \in DOMAIN T : T[c].st = "record"}) |-> j - 1]

\* The chunk indexes (enumerate(chunks)) whose task has ended with a record,
\* in the order of results.
Embedded(T) ==
    SelectSeq([j \in 1..Cardinality(DOMAIN T) |-> j - 1],
              LAMBDA c : T[c].st = "record")

\* _process_batch(text, metadata): n is the number of chunks of the text (0 if
\* the text is blank).
ProcessBatch(n) ==
    /\ batch.pc \in {"idle", "returned"}
    /\ IF n = 0
       THEN /\ sem' = 0
            /\ task' = NoTasks
            /\ batch' = [NoBatch EXCEPT !.pc = "returned"]
       ELSE /\ sem' = MAX_EMBEDDING_CONCURRENCY
            /\ task' = [c \in 0..(n - 1) |-> NewTask]
            /\ batch' = [NoBatch EXCEPT !.pc = "gather"]
    /\ UNCHANGED <<ingestion, gen, chunker, search, parser>>

\* A faulty admission that does not wait for a permit.
AcquireNoWait(c) ==
    /\ batch.pc = "gather"
    /\ c \in DOMAIN task
    /\ task[c].st = "ready"
    /\ sem' = sem - 1
    /\ task' = [task EXCEPT ![c].st = "embedding"]
    /\ UNCHANGED <<batch, ingestion, gen, chunker, search, parser>>

\* async with sem: a permit is free; get_embedding starts in the thread pool.
Acquire(c) ==
    /\ batch.pc = "gather"
    /\ c \in DOMAIN task
    /\ task[c].st = "ready"
    /\ sem > 0
    /\ sem' = sem - 1
    /\ task' = [task EXCEPT ![c].st = "embedding"]
    /\ UNCHANGED <<batch, ingestion, gen, chunker, search, parser>>

\* get_embedding returns: the permit is released and the task returns its
\* record.
EmbedOk(c) ==
    /\ batch.pc = "gather"
    /\ c \in DOMAIN task
    /\ task[c].st = "embedding"
    /\ sem' = sem + 1
    /\ task' = [task EXCEPT ![c].st = "record"]
    /\ UNCHANGED <<batch, ingestion, gen, chunker, search, parser>>

\* A faulty handler that, after the last attempt, returns a record for a
\* chunk that has no embedding.
EmbedFailRecord(c) ==
    /\ batch.pc = "gather"
    /\ c \in DOMAIN task
    /\ task[c].st = "embedding"
    /\ sem' = sem + 1
    /\ IF task[c].attempt = retries - 1
       THEN task' = [task EXCEPT ![c].st = "record", ![c].fails = @ + 1]
       ELSE task' = [task EXCEPT ![c].st = "backoff", ![c].fails = @ + 1,
                                 ![c].delay = 2 ^ task[c].attempt]
    /\ UNCHANGED <<batch, ingestion, gen, chunker, search, parser>>

\* get_embedding raises: the permit is released; after the last attempt the
\* task returns None, otherwise it sleeps 2 ** attempt seconds.
EmbedFail(c) ==
    /\ batch.pc = "gather"
    /\ c \in DOMAIN task
    /\ task[c].st = "embedding"
    /\ sem' = sem + 1
    /\ IF task[c].attempt = retries - 1
       THEN task' = [task EXCEPT ![c].st = "None", ![c].fails = @ + 1]
       ELSE task' = [task EXCEPT ![c].st = "backoff", ![c].fails = @ + 1,
                                 ![c].delay = 2 ^ task[c].attempt]
    /\ UNCHANGED <<batch, ingestion, gen, chunker, search, parser>>

\* A faulty wake-up that does not count the attempt.
BackoffNoCount(c) ==
    /\ batch.pc = "gather"
    /\ c \in DOMAIN task
    /\ task[c].st = "backoff"
    /\ task' = [task EXCEPT ![c].st = "ready", ![c].delay = 0]
    /\ UNCHANGED <<sem, batch, ingestion, gen, chunker, search, parser>>

\* The sleep is over: next attempt.
Backoff(c) ==
    /\ batch.pc = "gather"
    /\ c \in DOMAIN task
    /\ task[c].st = "backoff"
    /\ task' = [task EXCEPT ![c].st = "ready", ![c].attempt = @ + 1,
                            ![c].delay = 0]
    /\ UNCHANGED <<sem, batch, ingestion, gen, chunker, search, parser>>

\* A faulty filter that keeps every result.
GatherAll ==
    /\ batch.pc = "gather"
    /\ \A c \in DOMAIN task : task[c].st \in {"record", "None"}
    /\ batch' = [batch EXCEPT !.pc = "insert",
                  !.records = [j \in 1..Cardinality(DOMAIN task) |-> j - 1]]
    /\ UNCHANGED <<sem, task, ingestion, gen, chunker, search, parser>>

\* results = await asyncio.gather(*tasks); records = [r for r in results if r];
\* if not records: return 0
Gather ==
    /\ batch.pc = "gather"
    /\ \A c \in DOMAIN task : task[c].st \in {"record", "None"}
    /\ IF Embedded(task) = << >>
       THEN batch' = [batch EXCEPT !.pc = "returned", !.ret = 0]
       ELSE batch' = [batch EXCEPT !.pc = "insert", !.records = Embedded(task)]
    /\ UNCHANGED <<sem, task, ingestion, gen, chunker, search, parser>>

\* A faulty insert that gives up at the first failure.
InsertRecordsNoRetry(ok) ==
    /\ batch.pc = "insert"
    /\ IF ok
       THEN batch' = [batch EXCEPT !.pc = "returned", !.ret = Len(batch.records),
                                   !.acked = TRUE, !.stored = batch.records]
       ELSE batch' = [batch EXCEPT !.pc = "returned", !.ret = 0]
    /\ UNCHANGED <<sem, task, ingestion, gen, chunker, search, parser>>

\* supabase.table("documents").insert(records).execute()
InsertRecords(ok) ==
    /\ batch.pc = "insert"
    /\ IF ok
       THEN batch' = [batch EXCEPT !.pc = "returned", !.ret = Len(batch.records),
                                   !.acked = TRUE, !.stored = batch.records]
       ELSE IF batch.attempt = retries - 1
       THEN batch' = [batch EXCEPT !.pc = "returned", !.ret = 0]
       ELSE batch' = [batch EXCEPT !.pc = "sleep"]
    /\ UNCHANGED <<sem, task, ingestion, gen, chunker, search, parser>>

\* await asyncio.sleep(2 ** attempt) between two inserts
InsertWake ==
    /\ batch.pc = "sleep"
    /\ batch' = [batch EXCEPT !.pc = "insert", !.attempt = @ + 1]
    /\ UNCHANGED <<sem, task, ingestion, gen, chunker, search, parser>>

BatchNext ==
    \/ \E n \in 0..MaxChunks : ProcessBatch(n)
    \/ \E c \in 0..(MaxChunks - 1) : Acquire(c)
    \/ \E c \in 0..(MaxChunks - 1) : EmbedOk(c)
    \/ \E c \in 0..(MaxChunks - 1) : EmbedFail(c)
    \/ \E c \in 0..(MaxChunks - 1) : Backoff(c)
    \/ Gather
    \/ \E ok \in BOOLEAN : InsertRecords(ok)
    \/ InsertWake

BatchSpec == Init /\ [][BatchNext]_vars

\* -------------------------------------------- generate_with_retry on its own
\* agents.generate_with_retry(model, prompt, retries=3, delay=2).  The model
\* call runs in the thread pool; it returns a response, raises
\* ResourceExhausted (rate limited) or raises something else.

\* Largest values of the arguments retries and delay.
GenMaxRetries == 4
GenMaxDelay == 3

Failures == {"ResourceExhausted", "Other"}

\* The call: with retries = 0 the loop body never runs and the function falls
\* off its end (returns None); otherwise the first attempt starts.
GenerateWithRetry(R, D) ==
    /\ gen.pc \in {"idle", "returned", "raised"}
    /\ IF R = 0
       THEN gen' = [NoGen EXCEPT !.pc = "returned", !.delay = D, !.result = "None"]
       ELSE gen' = [NoGen EXCEPT !.pc = "call", !.retries = R, !.delay = D,
                                !.calls = 1]
    /\ UNCHANGED <<ingestion, sem, task, batch, chunker, search, parser>>

\* return await asyncio.to_thread(... model.generate_content ...)
CallReturns ==
    /\ gen.pc = "call"
    /\ gen' = [gen EXCEPT !.pc = "returned", !.result = "response",
                          !.outcomes = Append(@, "response")]
    /\ UNCHANGED <<ingestion, sem, task, batch, chunker, search, parser>>

\* except ResourceExhausted: raise after the last attempt, else sleep
\* delay * (2 ** attempt)
CallRateLimited ==
    /\ gen.pc = "call"
    /\ IF gen.attempt = gen.retries - 1
       THEN gen' = [gen EXCEPT !.pc = "raised", !.result = "ResourceExhausted",
                               !.outcomes = Append(@, "ResourceExhausted")]
       ELSE gen' = [gen EXCEPT !.pc = "sleep",
                               !.outcomes = Append(@, "ResourceExhausted"),
                               !.slept = Append(@, gen.delay * (2 ^ gen.attempt))]
    /\ UNCHANGED <<ingestion, sem, task, batch, chunker, search, parser>>

\* A faulty handler that treats every failure as a rate limit.
CallFailsRetried ==
    /\ gen.pc = "call"
    /\ IF gen.attempt = gen.retries - 1
       THEN gen' = [gen EXCEPT !.pc = "raised", !.result = "Other",
                               !.outcomes = Append(@, "Other")]
       ELSE gen' = [gen EXCEPT !.pc = "sleep",
                               !.outcomes = Append(@, "Other"),
                               !.slept = Append(@, gen.delay * (2 ^ gen.attempt))]
    /\ UNCHANGED <<ingestion, sem, task, batch, chunker, search, parser>>

\* except Exception: raise
CallFails ==
    /\ gen.pc = "call"
    /\ gen' = [gen EXCEPT !.pc = "raised", !.result = "Other",
                          !.outcomes = Append(@, "Other")]
    /\ UNCHANGED <<ingestion, sem, task, batch, chunker, search, parser>>

\* The sleep is over: the loop goes to the next attempt.
GenRetry ==
    /\ gen.pc = "sleep"
    /\ gen' = [gen EXCEPT !.pc = "call", !.attempt = @ + 1, !.calls = @ + 1]
    /\ UNCHANGED <<ingestion, sem, task, batch, chunker, search, parser>>

GenNext ==
    \/ \E R \in 0..GenMaxRetries, D \in 1..GenMaxDelay : GenerateWithRetry(R, D)
    \/ CallReturns
    \/ CallRateLimited
    \/ CallFails
    \/ GenRetry

GenSpec == Init /\ [][GenNext]_vars

\* ---------------------------------------------------- chunk_text on its own
\* IngestionService.chunk_text(text, chunk_size, overlap).  A string is the
\* sequence of its characters.  The texts are made of two letters, the two
\* white-space characters the separators use, and the full stop.
Alphabet == {"a", "b", " ", "\n", "."}
Whitespace == {" ", "\n"}

\* Longest text, and largest chunk_size, the chunker is called with.
MaxTextLen == 5
MaxChunkSize == 4

Texts == UNION {[1..n -> Alphabet] : n \in 0..MaxTextLen}

\* ["\n\n", "\n", ". "]
separators == << <<"\n", "\n">>, <<"\n">>, <<".", " ">> >>
joiner == <<"\n", "\n">>

\* Python slices: s[i:] and s[:j] with 0 <= i, j, and s[-n:] with n > 0.
From(s, i) == SubSeq(s, i + 1, Len(s))
Upto(s, j) == SubSeq(s, 1, IF j < Len(s) THEN j ELSE Len(s))
Last(s, n) == IF n >= Len(s) THEN s ELSE SubSeq(s, Len(s) - n + 1, Len(s))

\* str.find: the first position (from 0) at which sep occurs in s, or -1.
find(s, sep) ==
    LET hits == {i \in 0..(Len(s) - Len(sep)) :
                    SubSeq(s, i + 1, i + Len(sep)) = sep}
    IN  IF hits = {} THEN -1
        ELSE CHOOSE i \in hits : \A j \in hits : i <= j

\* str.split(sep)
RECURSIVE split(_, _)
split(s, sep) ==
    LET i == find(s, sep)
    IN  IF i < 0 THEN <<s>>
        ELSE <<Upto(s, i)>> \o split(From(s, i + Len(sep)), sep)

\* re.split(r'(?<=\. )', s): cut after every ". ", which stays with the piece
\* before the cut; a text that ends with ". " gives a last piece that is empty.
RECURSIVE re_split(_)
re_split(s) ==
    LET i == find(s, <<".", " ">>)
    IN  IF i < 0 THEN <<s>>
        ELSE <<Upto(s, i + 2)>> \o re_split(From(s, i + 2))

\* A faulty strip that removes nothing.
strip_nothing(s) == s

\* str.strip()
strip(s) ==
    LET keep == {i \in 1..Len(s) : s[i] \notin Whitespace}
    IN  IF keep = {} THEN << >>
        ELSE SubSeq(s, CHOOSE i \in keep : \A j \in keep : i <= j,
                       CHOOSE i \in keep : \A j \in keep : i >= j)

\* A faulty character split that returns the text in one piece.
char_split_whole(s, chunk_size, overlap) == <<s>>

\* [s[i : i + chunk_size] for i in range(0, len(s), chunk_size - overlap)]
char_split(s, chunk_size, overlap) ==
    LET step == chunk_size - overlap
        count == (Len(s) + step - 1) \div step
    IN  [j \in 1..count |-> Upto(From(s, (j - 1) * step), chunk_size)]

\* _recursive_split(current_text, separators), and its loop over the parts.
RECURSIVE recursive_split(_, _, _, _)
RECURSIVE all_parts(_, _, _, _)
recursive_split(current_text, seps, chunk_size, overlap) ==
    IF Len(current_text) <= chunk_size THEN <<current_text>>
    ELSE IF seps = << >> THEN char_split(current_text, chunk_size, overlap)
    ELSE all_parts(IF Head(seps) = <<".", " ">>
                   THEN re_split(current_text)
                   ELSE split(current_text, Head(seps)),
                   Tail(seps), chunk_size, overlap)

all_parts(parts, rest, chunk_size, overlap) ==
    IF parts = << >> THEN << >>
    ELSE (IF Len(Head(parts)) <= chunk_size
          THEN <<Head(parts)>>
          ELSE recursive_split(Head(parts), rest, chunk_size, overlap))
         \o all_parts(Tail(parts), rest, chunk_size, overlap)

\* The inputs: any text, and any chunk_size > overlap >= 0.
ChunkInit ==
    /\ RunsAtRest
    /\ BatchAtRest
    /\ GenAtRest
    /\ SearchAtRest
    /\ ParserAtRest
    /\ \E t \in Texts, cs \in 1..MaxChunkSize :
         \E ov \in 0..(cs - 1) :
            chunker = [NoChunker EXCEPT !.pc = "called", !.text = t,
                                        !.chunk_size = cs, !.overlap = ov]

\* if not text: return []
ReturnEmpty ==
    /\ chunker.pc = "called"
    /\ chunker.text = << >>
    /\ chunker' = [chunker EXCEPT !.pc = "returned"]
    /\ UNCHANGED <<ingestion, sem, task, batch, gen, search, parser>>

\* raw_parts = _recursive_split(text, ["\n\n", "\n", ". "])
SplitText ==
    /\ chunker.pc = "called"
    /\ chunker.text # << >>
    /\ chunker' = [chunker EXCEPT
            !.pc = "merge", !.i = 1,
            !.raw_parts = recursive_split(chunker.text, separators,
                                          chunker.chunk_size, chunker.overlap)]
    /\ UNCHANGED <<ingestion, sem, task, batch, gen, search, parser>>

\* A faulty loop body that starts the next chunk without the overlap.
MergePartNoOverlap ==
    /\ chunker.pc = "merge"
    /\ chunker.i <= Len(chunker.raw_parts)
    /\ LET part == strip(chunker.raw_parts[chunker.i])
           cur == chunker.current_chunk
       IN  IF part = << >>
           THEN chunker' = [chunker EXCEPT !.i = @ + 1]
           ELSE IF Len(cur) + Len(part) + 2 <= chunker.chunk_size
           THEN chunker' = [chunker EXCEPT !.i = @ + 1,
                    !.current_chunk =
                        IF cur # << >> THEN cur \o joiner \o part ELSE part]
           ELSE chunker' = [chunker EXCEPT !.i = @ + 1,
                    !.final_chunks = IF cur # << >> THEN Append(@, cur) ELSE @,
                    !.current_chunk = part]
    /\ UNCHANGED <<ingestion, sem, task, batch, gen, search, parser>>

\* for part in raw_parts: one pass through the loop body
MergePart ==
    /\ chunker.pc = "merge"
    /\ chunker.i <= Len(chunker.raw_parts)
    /\ LET part == strip(chunker.raw_parts[chunker.i])
           cur == chunker.current_chunk
       IN  IF part = << >>
           THEN chunker' = [chunker EXCEPT !.i = @ + 1]
           ELSE IF Len(cur) + Len(part) + 2 <= chunker.chunk_size
           THEN chunker' = [chunker EXCEPT !.i = @ + 1,
                    !.current_chunk =
                        IF cur # << >> THEN cur \o joiner \o part ELSE part]
           ELSE chunker' = [chunker EXCEPT !.i = @ + 1,
                    !.final_chunks = IF cur # << >> THEN Append(@, cur) ELSE @,
                    !.current_chunk =
                        IF chunker.overlap > 0 /\ cur # << >>
                        THEN Last(cur, chunker.overlap) \o joiner \o part
                        ELSE part]
    /\ UNCHANGED <<ingestion, sem, task, batch, gen, search, parser>>

\* A faulty return that forgets the chunk under construction.
ReturnChunksNoFlush ==
    /\ chunker.pc = "merge"
    /\ chunker.i > Len(chunker.raw_parts)
    /\ chunker' = [chunker EXCEPT !.pc = "returned"]
    /\ UNCHANGED <<ingestion, sem, task, batch, gen, search, parser>>

\* if current_chunk: final_chunks.append(current_chunk); return final_chunks
ReturnChunks ==
    /\ chunker.pc = "merge"
    /\ chunker.i > Len(chunker.raw_parts)
    /\ chunker' = [chunker EXCEPT
            !.pc = "returned",
            !.final_chunks = IF chunker.current_chunk # << >>
                             THEN Append(@, chunker.current_chunk) ELSE @]
    /\ UNCHANGED <<ingestion, sem, task, batch, gen, search, parser>>

ChunkNext ==
    \/ ReturnEmpty
    \/ SplitText
    \/ MergePart
    \/ ReturnChunks

ChunkSpec == ChunkInit /\ [][ChunkNext]_vars

\* ------------------------------------- search_knowledge_base on its own
\* A call of search_knowledge_base (src/app/services/agents.py:36-140) against
\* a store of rows.  Strings are sequences of characters.

\* The store of a call holds at most MaxRows rows.
MaxRows == 3

\* settings.MATCH_COUNT (src/app/core/config.py:26; default 15): the most rows
\* one vector search returns.  The model runs a configuration with small
\* searches, so that a search is cut short by it.
MATCH_COUNT == 2

\* The head room of `len(results) >= limit + 10` (agents.py:86), scaled with
\* the stores so that the loop over the subjects is left early.
OVER_FETCH == 1

\* settings.DEFAULT_RAG_LIMIT: the limit of a call that passes none.
DEFAULT_RAG_LIMIT == 5

\* The limit a call works with after `if limit is None` (agents.py:38-39): an
\* integer the caller passed, or the default.
Limits == {-1, 0, 1} \cup {DEFAULT_RAG_LIMIT}

\* The surface forms of the subjects.
Bio == <<"B", "i", "o">>
Biology == <<"B", "i", "o", "l", "o", "g", "y">>
Chem == <<"C", "h", "e", "m">>
Chemistry == <<"C", "h", "e", "m", "i", "s", "t", "r", "y">>
Math == <<"M", "a", "t", "h">>
Mathematics == <<"M", "a", "t", "h", "e", "m", "a", "t", "i", "c", "s">>
Maths == <<"M", "a", "t", "h", "s">>
Physic == <<"P", "h", "y", "s", "i", "c">>
Physics == <<"P", "h", "y", "s", "i", "c", "s">>

\* settings.SUBJECT_MAP
SUBJECT_MAP ==
       <<"m", "a", "t", "h", "e", "m", "a", "t", "i", "c", "s">> :> <<Maths, Math, Mathematics>>
    @@ <<"m", "a", "t", "h", "s">> :> <<Mathematics, Math, Maths>>
    @@ <<"m", "a", "t", "h">> :> <<Mathematics, Maths, Math>>
    @@ <<"p", "h", "y", "s", "i", "c", "s">> :> <<Physics, Physic>>
    @@ <<"b", "i", "o", "l", "o", "g", "y">> :> <<Biology, Bio>>
    @@ <<"c", "h", "e", "m", "i", "s", "t", "r", "y">> :> <<Chemistry, Chem>>
    @@ <<"e", "u", "c", "l", "i", "d", " ", "g", "e", "o", "m", "e", "t", "r", "y">> :> <<Maths, Mathematics, Math>>

Uppercase ==
    <<"A", "B", "C", "D", "E", "F", "G", "H", "I", "J", "K", "L", "M",
      "N", "O", "P", "Q", "R", "S", "T", "U", "V", "W", "X", "Y", "Z">>
Lowercase ==
    <<"a", "b", "c", "d", "e", "f", "g", "h", "i", "j", "k", "l", "m",
      "n", "o", "p", "q", "r", "s", "t", "u", "v", "w", "x", "y", "z">>

\* str.lower()
lower(s) ==
    [i \in 1..Len(s) |->
        IF \E j \in 1..26 : Uppercase[j] = s[i]
        THEN Lowercase[CHOOSE j \in 1..26 : Uppercase[j] = s[i]]
        ELSE s[i]]

\* str.split() without arguments: the maximal runs of characters that are not
\* white space, in order.
RECURSIVE str_split(_)
str_split(s) ==
    IF s = << >> THEN << >>
    ELSE IF Head(s) \in Whitespace THEN str_split(Tail(s))
    ELSE LET ws == {i \in 1..Len(s) : s[i] \in Whitespace}
             end == IF ws = {} THEN Len(s) + 1
                    ELSE CHOOSE i \in ws : \A j \in ws : i <= j
         IN  <<SubSeq(s, 1, end - 1)>> \o str_split(SubSeq(s, end, Len(s)))

Range(f) == {f[i] : i \in DOMAIN f}

\* query_terms = set(query.lower().split())
query_terms(query) == Range(str_split(lower(query)))

\* score_doc: the number of query terms that occur in the lower-cased content.
score_doc(doc, terms) ==
    Cardinality({t \in terms : find(lower(doc.content), t) # -1})

\* A faulty sort, descending but with rows of equal score in reverse order.
RECURSIVE sort_reversed(_, _)
sort_reversed(docs, terms) ==
    IF docs = << >> THEN << >>
    ELSE LET h == Head(docs)
             rest == sort_reversed(Tail(docs), terms)
         IN  SelectSeq(rest, LAMBDA d : score_doc(d, terms) >= score_doc(h, terms))
             \o <<h>>
             \o SelectSeq(rest, LAMBDA d : score_doc(d, terms) < score_doc(h, terms))

\* docs.sort(key=score_doc, reverse=True): list.sort is stable, also with
\* reverse=True; each row is placed behind the rows of a higher score and in
\* front of the later rows of its own score.
RECURSIVE sort(_, _)
sort(docs, terms) ==
    IF docs = << >> THEN << >>
    ELSE LET h == Head(docs)
             rest == sort(Tail(docs), terms)
         IN  SelectSeq(rest, LAMBDA d : score_doc(d, terms) > score_doc(h, terms))
             \o <<h>>
             \o SelectSeq(rest, LAMBDA d : score_doc(d, terms) <= score_doc(h, terms))

\* docs[:limit]: a negative limit counts from the end of the list.
slice_to(docs, limit) ==
    IF limit >= 0 THEN Upto(docs, limit)
    ELSE IF Len(docs) + limit > 0 THEN Upto(docs, Len(docs) + limit)
    ELSE << >>

\* for item in top_docs: context += f"---\n{item['content']}\n"
RECURSIVE format_context(_)
format_context(top_docs) ==
    IF top_docs = << >> THEN << >>
    ELSE <<"-", "-", "-", "\n">> \o Head(top_docs).content \o <<"\n">>
         \o format_context(Tail(top_docs))

\* subject.strip().lower()
normalized_key(subject) == lower(strip(subject))

\* A faulty expansion that appends every variation.
append_all_variations(subjects, variations) == subjects \o variations

\* for variation in subject_map[normalized_key]:
\*     if variation not in search_subjects: search_subjects.append(variation)
RECURSIVE append_variations(_, _)
append_variations(subjects, variations) ==
    IF variations = << >> THEN subjects
    ELSE append_variations(
            IF Head(variations) \in Range(subjects) THEN subjects
            ELSE Append(subjects, Head(variations)),
            Tail(variations))

\* search_subjects, as built in agents.py:67-73
expand_subject(subject) ==
    IF normalized_key(subject) \in DOMAIN SUBJECT_MAP
    THEN append_variations(<<subject>>, SUBJECT_MAP[normalized_key(subject)])
    ELSE <<subject>>

\* current_filter = {"subject": s}; current_filter.update(filter)
current_filter(s, filter) == [subject |-> s, chapter |-> filter]

\* The rows of the store that are close enough to the query and agree with
\* the filter, closest first.
matching(kb, f) ==
    SelectSeq(kb, LAMBDA row : /\ row.subject = f.subject
                               /\ f.chapter \in {"None", row.chapter})

\* The RPC match_documents: the first match_count matching rows.
match_documents(kb, f) == Upto(matching(kb, f), MATCH_COUNT)

\* The calls studied: two queries, subjects in several spellings, and stores
\* of rows under three subject tags.
Queries == {<<"E", " ", "p">>, <<"e", "p", " ", "E", "P">>}
Subjects ==
    {Mathematics, Maths, <<" ", "m", "a", "t", "h", "s", " ">>, <<"M", "A", "T", "H">>, Physic,
     <<"E", "u", "c", "l", "i", "d", " ", "G", "e", "o", "m", "e", "t", "r", "y">>, <<"H", "i", "s", "t", "o", "r", "y">>}
Filters == {"None", "1"}
RowKinds ==
    {[subject |-> Maths, chapter |-> "1", content |-> <<"x", "E", "P", "x">>],
     [subject |-> Maths, chapter |-> "1", content |-> <<"P">>],
     [subject |-> Maths, chapter |-> "2", content |-> <<"z">>],
     [subject |-> Mathematics, chapter |-> "1", content |-> <<"p", "e">>],
     [subject |-> Physics, chapter |-> "1", content |-> <<"P">>]}

\* A store: rows in the order of their closeness to the query, each with its
\* identity.
Stores ==
    UNION {{[i \in 1..n |-> [id |-> i, subject |-> f[i].subject,
                             chapter |-> f[i].chapter,
                             content |-> f[i].content]] :
               f \in [1..n -> RowKinds]} : n \in 0..MaxRows}

reading == <<ingestion, sem, task, batch, gen, chunker, parser>>

SearchInit ==
    /\ RunsAtRest
    /\ BatchAtRest
    /\ GenAtRest
    /\ ChunkerAtRest
    /\ ParserAtRest
    /\ \E q \in Queries, sub \in Subjects, l \in Limits, f \in Filters,
          kb \in Stores :
         search = [NoSearch EXCEPT !.pc = "called", !.query = q,
                                   !.subject = sub, !.limit = l,
                                   !.filter = f, !.kb = kb]

\* query_emb = await asyncio.to_thread(_embed), then the candidate subjects
EmbedQuery ==
    /\ search.pc = "called"
    /\ search' = [search EXCEPT !.pc = "searching",
                                !.search_subjects = expand_subject(search.subject),
                                !.s = 1]
    /\ UNCHANGED reading

\* The embedding call raises: the error leaves search_knowledge_base.
EmbedRaises ==
    /\ search.pc = "called"
    /\ search' = [search EXCEPT !.pc = "raised"]
    /\ UNCHANGED reading

\* What the search for the candidate at hand returns.
response_data ==
    match_documents(search.kb,
                    current_filter(search.search_subjects[search.s],
                                   search.filter))

\* A faulty loop that stops after the first search.
SearchSubjectOnce ==
    /\ search.pc = "searching"
    /\ ~(response_data # << >>
         /\ Len(search.results \o response_data) >= search.limit + OVER_FETCH)
    /\ search' = [search EXCEPT !.results = @ \o response_data,
                                !.pc = "collected"]
    /\ UNCHANGED reading

\* One turn of `for s in search_subjects` that goes on to the next subject (or
\* ends the loop with the last one).
SearchSubject ==
    /\ search.pc = "searching"
    /\ ~(response_data # << >>
         /\ Len(search.results \o response_data) >= search.limit + OVER_FETCH)
    /\ search' = [search EXCEPT
            !.results = @ \o response_data,
            !.s = @ + 1,
            !.pc = IF search.s = Len(search.search_subjects)
                   THEN "collected" ELSE "searching"]
    /\ UNCHANGED reading

\* One turn that found enough rows: break.
SearchEnough ==
    /\ search.pc = "searching"
    /\ response_data # << >>
    /\ Len(search.results \o response_data) >= search.limit + OVER_FETCH
    /\ search' = [search EXCEPT !.results = @ \o response_data,
                                !.pc = "collected"]
    /\ UNCHANGED reading

\* The search call raises.
SearchRaises ==
    /\ search.pc = "searching"
    /\ search' = [search EXCEPT !.pc = "raised"]
    /\ UNCHANGED reading

\* A faulty end that raises when nothing was found.
NoDocsRaises ==
    /\ search.pc = "collected"
    /\ search.results = << >>
    /\ search' = [search EXCEPT !.pc = "raised"]
    /\ UNCHANGED reading

\* if not docs: return ""
NoDocs ==
    /\ search.pc = "collected"
    /\ search.results = << >>
    /\ search' = [search EXCEPT !.pc = "returned", !.context = << >>]
    /\ UNCHANGED reading

\* The rows found are sorted, cut to the limit and formatted.  (The program
\* sorts the list in place; `results` keeps the order of accumulation.)
Rerank ==
    /\ search.pc = "collected"
    /\ search.results # << >>
    /\ LET docs == sort(search.results, query_terms(search.query))
           top_docs == slice_to(docs, search.limit)
       IN  search' = [search EXCEPT !.pc = "returned", !.docs = docs,
                                    !.top_docs = top_docs,
                                    !.context = format_context(top_docs)]
    /\ UNCHANGED reading

SearchNext ==
    \/ EmbedQuery
    \/ EmbedRaises
    \/ SearchSubject
    \/ SearchEnough
    \/ SearchRaises
    \/ NoDocs
    \/ Rerank

SearchSpec == SearchInit /\ [][SearchNext]_vars


\* ------------------------------------------------- parse_pdf on its own
\* A call of parse_pdf (src/app/services/ingestion.py:24-92) on a document
\* whose pages hold text of several kinds; its consumer takes the pages as
\* they are produced.

\* The document of a call has at most MaxDocPages pages.
MaxDocPages == 3

\* settings.OCR_MIN_TEXT_LENGTH
OCR_MIN_TEXT_LENGTH == 50
\* settings.OCR_MIN_ENGLISH_DENSITY = 0.3 and settings.OCR_MAX_GARBAGE_RATIO =
\* 0.05, as fractions <<numerator, denominator>>.
OCR_MIN_ENGLISH_DENSITY == <<3, 10>>
OCR_MAX_GARBAGE_RATIO == <<1, 20>>

\* The replacement character U+FFFD.
Replacement == "U+FFFD"
\* What [a-zA-Z] matches.
Letters == Range(Lowercase) \cup Range(Uppercase)

Rep(c, n) == [i \in 1..n |-> c]

\* The texts page.get_text() returns for the pages studied: short and long
\* runs of letters, letters among digits and among replacement characters on
\* both sides of the two ratios, a text between white space, and no text.
PageTexts ==
    {Rep("a", 12) \o Rep("B", 13),
     Rep("a", 10),
     Rep("a", 15) \o Rep("1", 35),
     Rep("a", 14) \o Rep("1", 36),
     Rep("a", 57) \o Rep(Replacement, 3),
     Rep("a", 56) \o Rep(Replacement, 4),
     <<" ">> \o Rep("a", 49) \o <<"\n">>,
     << >>}

Docs == UNION {[1..n -> PageTexts] : n \in 0..MaxDocPages}

\* sorted(set([0, total_pages // 2, total_pages - 1])), pages counted from 1
sample_indices(total_pages) ==
    IF total_pages > 0 THEN {1, (total_pages \div 2) + 1, total_pages} ELSE {}

\* sample_text: the texts of the sampled pages, in page order.
RECURSIVE sample_from(_, _, _)
sample_from(doc, indices, i) ==
    IF i > Len(doc) THEN << >>
    ELSE (IF i \in indices THEN doc[i] ELSE << >>)
         \o sample_from(doc, indices, i + 1)
sample_text(doc) == sample_from(doc, sample_indices(Len(doc)), 1)

english_chars(text) == Len(SelectSeq(text, LAMBDA c : c \in Letters))
garbage_chars(text) == Len(SelectSeq(text, LAMBDA c : c = Replacement))

is_too_short(text) == Len(text) < OCR_MIN_TEXT_LENGTH
\* density = english_chars / len < OCR_MIN_ENGLISH_DENSITY
is_low_density(text) ==
    /\ Len(text) > 0
    /\ english_chars(text) * OCR_MIN_ENGLISH_DENSITY[2]
          < OCR_MIN_ENGLISH_DENSITY[1] * Len(text)
\* garbage_ratio = garbage_chars / len > OCR_MAX_GARBAGE_RATIO
is_high_garbage(text) ==
    /\ Len(text) > 0
    /\ garbage_chars(text) * OCR_MAX_GARBAGE_RATIO[2]
          > OCR_MAX_GARBAGE_RATIO[1] * Len(text)

\* A faulty decision that looks at the length only.
use_ocr_length_only(text) == is_too_short(text)

\* use_ocr = is_too_short or is_low_density or is_high_garbage
use_ocr(text) ==
    is_too_short(text) \/ is_low_density(text) \/ is_high_garbage(text)

parsing == <<store, pc, run, cpu, sem, task, batch, gen, chunker, search>>

\* A call without a book name, or for a book whose job was started.
ParseInit ==
    /\ BatchAtRest
    /\ GenAtRest
    /\ ChunkerAtRest
    /\ SearchAtRest
    /\ store = {} /\ cpu = {}
    /\ pc = [r \in Runs |-> "idle"]
    /\ run = [r \in Runs |-> IdleRun]
    /\ \E doc \in Docs, book_name \in {"", FirstKey} :
         /\ parser = [NoParser EXCEPT !.pc = "called", !.doc = doc,
                                      !.book_name = book_name]
         /\ jobs = IF book_name = "" THEN [k \in {} |-> 0]
                   ELSE start_job([k \in {} |-> 0], book_name, Len(doc))

\* The document is opened, the sample is taken and the mode is decided.
Decide ==
    /\ parser.pc = "called"
    /\ LET text_stripped == strip(sample_text(parser.doc))
       IN  parser' = [parser EXCEPT !.pc = "pages",
                                    !.total_pages = Len(parser.doc),
                                    !.text_stripped = text_stripped,
                                    !.use_ocr = use_ocr(text_stripped)]
    /\ UNCHANGED <<jobs, parsing>>

\* if book_name and job_registry.is_cancelled(book_name)
parse_cancelled ==
    parser.book_name # "" /\ is_cancelled(jobs, parser.book_name)

\* One turn of the loop of the OCR branch: the page is rasterized and read,
\* the progress is reported and the text is yielded.
OcrPage ==
    /\ parser.pc = "pages" /\ parser.use_ocr
    /\ parser.i < parser.total_pages
    /\ ~parse_cancelled
    /\ parser' = [parser EXCEPT !.i = @ + 1,
                                !.pages = Append(@, [page |-> parser.i + 1,
                                                     mode |-> "ocr"])]
    /\ jobs' = IF parser.book_name # ""
               THEN update_progress(jobs, parser.book_name, parser.i + 1)
               ELSE jobs
    /\ UNCHANGED parsing

\* One turn of the loop of the other branch: page.get_text() is yielded.
TextPage ==
    /\ parser.pc = "pages" /\ ~parser.use_ocr
    /\ parser.i < parser.total_pages
    /\ ~parse_cancelled
    /\ parser' = [parser EXCEPT !.i = @ + 1,
                                !.pages = Append(@, [page |-> parser.i + 1,
                                                     mode |-> "text"])]
    /\ jobs' = IF parser.book_name # ""
               THEN update_progress(jobs, parser.book_name, parser.i + 1)
               ELSE jobs
    /\ UNCHANGED parsing

\* The loop ends, by its last page or by the break on cancellation: doc.close()
CloseDoc ==
    /\ parser.pc = "pages"
    /\ parser.i = parser.total_pages \/ parse_cancelled
    /\ parser' = [parser EXCEPT !.pc = "closed"]
    /\ UNCHANGED <<jobs, parsing>>

ParseNext ==
    \/ Decide
    \/ OcrPage
    \/ TextPage
    \/ CloseDoc
    \/ ApiCancelJob(FirstKey)

ParseSpec == ParseInit /\ [][ParseNext]_vars

\* ------------------------------------------------------------------ claims
Recorded(k) == k \in DOMAIN jobs

\* At most one upload was ever requested for book k (k is never restarted).
SoleRun(k) == Cardinality({r \in Runs : pc[r] # "idle" /\ run[r].key = k}) <= 1

RowsOfRun(S, r) == {c \in S : c.run = r}
RowsOfBook(S, k) == {c \in S : c.book = k}

\* C1: for a book with a single ingestion run, once cancel_job has returned
\* true (the record has cancelled = true), every later state of the record
\* has cancelled = true and a status other than "completed".
C1_CancelledNeverCompletes ==
    [][\A k \in Keys :
         (/\ SoleRun(k)'
          /\ \/ Cancel(k) /\ cancel_job_result(jobs, k)
             \/ is_cancelled(jobs, k))
         => /\ is_cancelled(jobs', k)
            /\ jobs'[k].status # "completed"]_vars

\* C1 witness: the only run of a book was cancelled part-way and has stopped.
C1_Witness ==
    \E r \in Runs :
        /\ pc[r] = "done" /\ run[r].result = "stopped"
        /\ SoleRun(key(r))
        /\ jobs[key(r)].cancelled
        /\ jobs[key(r)].status = "cancelling"
        /\ jobs[key(r)].current_page >= 1
        /\ jobs[key(r)].current_page < jobs[key(r)].total_pages

\* A run that has seen is_cancelled(key) = true, up to and after its end.
Stopping(r) ==
    \/ run[r].observed
    \/ pc[r] = "done" /\ run[r].result = "stopped"

\* C2: once a run has observed is_cancelled(key) = true it extracts no further
\* page, starts no further embedding, and inserts no further batch: it goes
\* straight to its end, and the pages buffered for the open window are dropped.
C2_NothingAfterObservedCancel ==
    [][\A r \in Runs :
         Stopping(r) =>
            /\ pc'[r] \in {"final", "finish", "done"}
            /\ run'[r].i = run[r].i \/ pc'[r] = "done"
            /\ RowsOfRun(store', r) \subseteq RowsOfRun(store, r)]_vars

\* C2 witness: a run has observed the cancellation with a page buffered in the
\* window that was not yet processed.
C2_Witness ==
    \E r \in Runs :
        /\ run[r].observed /\ pc[r] = "final"
        /\ run[r].b >= 1
        /\ RowsOfRun(store, r) = {}

\* C3 as stated: once cancelled = true, no registry operation, start_job
\* included, makes cancelled (or is_cancelled) false again.
C3_Original ==
    [][\A k \in Keys : is_cancelled(jobs, k) => is_cancelled(jobs', k)]_vars

\* C3 amended: once cancelled = true, it stays true under update_progress,
\* complete_job, fail_job and cancel_job; only start_job for that key (a
\* restart) replaces the record by one that is not cancelled.
C3_MonotonicUntilRestart ==
    [][\A k \in Keys :
         is_cancelled(jobs, k) =>
            \/ is_cancelled(jobs', k)
            \/ \E r \in Runs : StartJob(r) /\ key(r) = k]_vars

\* C3 witness: a record that was cancelled and then went through fail_job
\* still has its flag.
C3_Witness ==
    \E k \in Keys :
        /\ Recorded(k)
        /\ jobs[k].cancelled /\ jobs[k].status = "failed"
        /\ jobs[k].current_page >= 1

\* C4: every job record has current_page <= total_pages.
C4_ProgressWithinTotal ==
    \A k \in DOMAIN jobs : jobs[k].current_page <= jobs[k].total_pages

StatusOf(J, k) == IF k \in DOMAIN J THEN J[k].status ELSE "none"

\* C5: the status of a record changes only along (any) -> processing,
\* processing -> cancelling, processing -> completed, processing -> failed.
C5_StatusTransitions ==
    [][\A k \in Keys :
         StatusOf(jobs, k) # StatusOf(jobs', k) =>
            \/ StatusOf(jobs', k) = "processing"
            \/ /\ StatusOf(jobs, k) = "processing"
               /\ StatusOf(jobs', k) \in {"cancelling", "completed", "failed"}]_vars

\* r2 was requested after r1 had ended, for the same book, and both completed.
Reingested(r1, r2) ==
    /\ pc[r1] = "done" /\ pc[r2] = "done"
    /\ r1 \in run[r2].pred
    /\ run[r1].key = run[r2].key
    /\ run[r1].result = "completed" /\ run[r2].result = "completed"

\* C6: after two ingestion runs of the same book executed one after the other,
\* each to completion, the store holds for that book exactly the rows the
\* second run inserted and none of the first.
C6_ReingestionSupersedes ==
    \A r1 \in Runs, r2 \in Runs :
        Reingested(r1, r2) =>
            /\ RowsOfBook(store, run[r2].key) \subseteq RowsOfRun(store, r2)
            /\ Cardinality(RowsOfBook(store, run[r2].key)) = run[r2].total_chunks

\* C6 witness: both runs stored rows, and the second run's are the ones left.
C6_Witness ==
    \E r1 \in Runs, r2 \in Runs :
        /\ Reingested(r1, r2)
        /\ run[r1].total_chunks >= 1
        /\ run[r2].total_chunks >= 1
        /\ RowsOfBook(store, run[r2].key) # {}

\* C7: when process_document returns, the registry has a record for the book
\* key, in status processing or later, with the document's page count.
C7_RegisteredOnReturn ==
    [][\A r \in Runs :
         (pc[r] = "idle" /\ pc'[r] = "queued") =>
            /\ run'[r].key \in DOMAIN jobs'
            /\ jobs'[run'[r].key].total_pages = run'[r].n]_vars

\* C8: every failure raised inside the background task leaves the record of
\* the job's key with status "failed" and the error text.
C8_FailureRecorded ==
    [][\A r \in Runs :
         Except(r) =>
            /\ key(r) \in DOMAIN jobs'
            /\ jobs'[key(r)].status = "failed"
            /\ jobs'[key(r)].error # NoError]_vars

\* C9: a run calls complete_job only if it was not cancelled, consumed every
\* page, and every window it handed to the store was acknowledged.
C9_CompleteOnlyOnFullSuccess ==
    [][\A r \in Runs :
         (pc[r] = "finish" /\ pc'[r] = "done" /\ run'[r].result = "completed") =>
            /\ ~is_cancelled(jobs, key(r))
            /\ run[r].i = run[r].n
            /\ ~run[r].dropped]_vars

\* The record a sole run of a book has after reporting page i of n, whether
\* or not a cancel request has arrived.
ProgressRecord(r) ==
    [status |-> IF jobs[key(r)].cancelled THEN "cancelling" ELSE "processing",
     current_page |-> run[r].i, total_pages |-> run[r].n,
     cancelled |-> jobs[key(r)].cancelled, error |-> NoError]

\* C10: update_progress(key, u) on an existing key sets current_page to u and
\* leaves total_pages, status, cancelled and every other record unchanged; so
\* after start_job(B, n) and update_progress(B, i) the record reads
\* current_page = i, total_pages = n, status "processing", and is_cancelled
\* stays true through update_progress calls made after cancel_job.
C10_UpdateProgressFrame ==
    /\ [](\A r \in Runs :
            (pc[r] = "body" /\ run[r].kind # "error" /\ SoleRun(key(r)))
                => jobs[key(r)] = ProgressRecord(r))
    /\ [][\A r \in Runs :
            (UpdateProgress(r) /\ Recorded(key(r))) =>
               /\ DOMAIN jobs' = DOMAIN jobs
               /\ \A k \in DOMAIN jobs \ {key(r)} : jobs'[k] = jobs[k]
               /\ jobs'[key(r)].current_page = run[r].i
               /\ jobs'[key(r)].total_pages = jobs[key(r)].total_pages
               /\ jobs'[key(r)].status = jobs[key(r)].status
               /\ jobs'[key(r)].cancelled = jobs[key(r)].cancelled
               /\ jobs'[key(r)].error = jobs[key(r)].error]_vars

\* C10 witness: progress was reported after a cancel request; the flag is
\* still set.
C10_Witness ==
    \E r \in Runs :
        /\ pc[r] = "body" /\ run[r].kind # "error"
        /\ is_cancelled(jobs, key(r))
        /\ jobs[key(r)].current_page = run[r].i
        /\ run[r].i >= 1

\* C11: an operation on a key the registry does not know is a lookup miss:
\* cancel_job returns false, is_cancelled returns false, get_status returns
\* None, and update_progress, complete_job, fail_job and cancel_job leave the
\* registry as it was, without a record for the key.
C11_UnknownKeyIsMiss ==
    /\ [](\A k \in Keys \ DOMAIN jobs :
            /\ ~cancel_job_result(jobs, k)
            /\ ~is_cancelled(jobs, k)
            /\ get_status(jobs, k) = {})
    /\ [][\A k \in Keys \ DOMAIN jobs :
            (\/ \E p \in 0..MaxPages : ApiUpdateProgress(k, p)
             \/ ApiCompleteJob(k)
             \/ \E e \in Errors : ApiFailJob(k, e)
             \/ ApiCancelJob(k))
            => jobs' = jobs /\ k \notin DOMAIN jobs']_vars

\* One key has a record that is under way and the other key is unknown.
C11_Witness ==
    \E k \in Keys, u \in Keys :
        /\ k \in DOMAIN jobs
        /\ jobs[k].status = "processing" /\ jobs[k].current_page > 0
        /\ u \notin DOMAIN jobs

\* C12: start_job(key, total) on a key that has a record, whatever its
\* status, leaves for that key exactly the record status = "processing",
\* current_page = 0, total_pages = total, cancelled = false and no error; the
\* records of the other keys and the set of known keys are unchanged.
C12_StartJobReplaces ==
    [][\A r \in Runs :
         StartJob(r) /\ Recorded(key(r))
         => /\ jobs'[key(r)] =
                 [status |-> "processing", current_page |-> 0,
                  total_pages |-> run[r].n, cancelled |-> FALSE,
                  error |-> NoError]
            /\ DOMAIN jobs' = DOMAIN jobs
            /\ \A k \in DOMAIN jobs \ {key(r)} : jobs'[k] = jobs[k]]_vars

\* A run has just called start_job for a book whose previous run had been
\* stopped by a cancel request (its record had cancelled = true and status
\* "cancelling").
C12_Witness ==
    \E r \in Runs, q \in Runs :
        /\ r # q /\ key(r) = key(q)
        /\ pc[q] = "done" /\ run[q].result = "stopped"
        /\ pc[r] = "delete" /\ cpu = {r}
        /\ jobs[key(r)].status = "processing" /\ ~jobs[key(r)].cancelled

\* Run r has called start_job and its task has not ended.
Started(r) == pc[r] \notin {"idle", "queued", "start", "done"}

\* Run r is the only run that has called start_job for its book, so the
\* record of the book is the one r created.
OwnsRecord(r) ==
    /\ Started(r)
    /\ \A q \in Runs \ {r} :
          pc[q] # "idle" /\ key(q) = key(r) => pc[q] \in {"queued", "start"}

\* C13: no interleaving of the registry operations of the orchestration
\* tasks and of cancel requests on one key loses a cancel request: once
\* cancel_job has returned true for the record of a run, is_cancelled is true
\* for that run in every later state until the run ends.
C13_CancelNotLost ==
    [][\A r \in Runs :
         (/\ OwnsRecord(r)
          /\ is_cancelled(jobs, key(r))
          /\ pc'[r] # "done")
         => is_cancelled(jobs', key(r))]_vars

\* The chunks whose get_embedding call is in flight.
InFlight == {c \in DOMAIN task : task[c].st = "embedding"}

\* C14: within one ingestion run, whose _process_batch calls follow one
\* another, at most MAX_EMBEDDING_CONCURRENCY calls of get_embedding are in
\* flight at any moment, however many chunks a window has and however many
\* windows there are; the semaphore value is the number of free permits.
C14_EmbeddingBound ==
    /\ Cardinality(InFlight) <= MAX_EMBEDDING_CONCURRENCY
    /\ batch.pc = "gather"
       => sem = MAX_EMBEDDING_CONCURRENCY - Cardinality(InFlight)

\* Every permit is taken, a chunk waits for one, and a chunk is in flight
\* again after a failed attempt.
C14_Witness ==
    /\ Cardinality(InFlight) = MAX_EMBEDDING_CONCURRENCY
    /\ \E c \in DOMAIN task : task[c].st = "ready"
    /\ \E c \in InFlight : task[c].attempt > 0

\* gather has returned: _process_batch holds one result per chunk.
Gathered == batch.pc \in {"insert", "sleep", "returned"} /\ task # NoTasks

\* C15: a chunk whose embedding fails on every allowed attempt is surfaced to
\* the caller of the embedding step: its task ends with the result None, at
\* the last failed attempt and not before, gather hands _process_batch one
\* result per chunk, and the None results are exactly the chunks that failed
\* `retries` times (the others are records).
C15_FailureSurfaced ==
    /\ [](\A c \in DOMAIN task :
            /\ task[c].st = "None" <=> task[c].fails = retries
            /\ Gathered => task[c].st \in {"None", "record"})
    /\ [][\A c \in DOMAIN task :
            EmbedFail(c) /\ task[c].attempt = retries - 1
            => task'[c].st = "None"]_vars

\* gather has returned with a record for one chunk and None for another, which
\* failed three times.
C15_Witness ==
    /\ Gathered
    /\ \E c \in DOMAIN task : task[c].st = "None" /\ task[c].fails = retries
    /\ \E c \in DOMAIN task : task[c].st = "record"

\* Some chunks of the window failed on every attempt and at least one chunk
\* was embedded.
PartialFailure ==
    /\ \E c \in DOMAIN task : task[c].fails = retries
    /\ \E c \in DOMAIN task : task[c].st = "record" /\ task[c].fails < retries

\* The chunk indexes of a list of records.
Indexes(recs) == {recs[j] : j \in 1..Len(recs)}

\* C16: when some chunks of a window fail embedding on every attempt and at
\* least one succeeds, the records handed to the insert are exactly the
\* embedded chunks, each once, without the failed ones; they are what the
\* store holds of the window once an insert is acknowledged; and the call
\* returns their number to the run, which goes on (nothing is raised).
C16_PartialBatchFailure ==
    Gathered /\ PartialFailure
    => /\ Indexes(batch.records) =
            {c \in DOMAIN task : task[c].fails < retries}
       /\ Len(batch.records) = Cardinality(Indexes(batch.records))
       /\ batch.stored = IF batch.acked THEN batch.records ELSE << >>
       /\ batch.pc = "returned" /\ batch.acked
          => batch.ret = Cardinality({c \in DOMAIN task : task[c].fails < retries})

\* _process_batch has returned 2 after a window of three chunks of which one
\* failed three times; the two others are stored.
C16_Witness ==
    /\ batch.pc = "returned" /\ batch.acked
    /\ PartialFailure
    /\ Cardinality(DOMAIN task) = 3
    /\ Len(batch.stored) = 2 /\ batch.ret = 2

\* C17: generate_with_retry calls the model at most `retries` times; every
\* call but the last one made was rate limited (ResourceExhausted), so it
\* retries on nothing else and never after a success; between the attempts
\* number a and a + 1 it sleeps delay * 2^a; it returns the response of the
\* first call that succeeds; it raises ResourceExhausted only after `retries`
\* calls, and any other failure as the outcome of the call that raised it.
C17_RetryOnlyOnRateLimit ==
    LET o == gen.outcomes
        n == Len(o)
    IN  /\ gen.calls <= gen.retries
        /\ \A j \in 1..(n - 1) : o[j] = "ResourceExhausted"
        /\ gen.slept = [j \in 1..Len(gen.slept) |-> gen.delay * (2 ^ (j - 1))]
        /\ gen.pc = "call" => n = gen.calls - 1 /\ Len(gen.slept) = n
        /\ gen.pc = "sleep" => n = gen.calls /\ Len(gen.slept) = n
        /\ gen.pc \in {"returned", "raised"} /\ gen.retries > 0
           => /\ n = gen.calls /\ Len(gen.slept) = n - 1
              /\ gen.result = o[n]
              /\ gen.pc = "returned" <=> o[n] = "response"
              /\ o[n] = "ResourceExhausted" => n = gen.retries

\* With the default arguments (retries = 3, delay = 2): three rate-limited
\* calls, sleeps of 2 and 4 seconds between them, ResourceExhausted raised.
C17_Witness ==
    /\ gen.pc = "raised" /\ gen.result = "ResourceExhausted"
    /\ gen.retries = 3 /\ gen.delay = 2
    /\ gen.calls = 3 /\ gen.slept = <<2, 4>>

\* chunk_text has returned final_chunks.
Chunked == chunker.pc = "returned"

\* C18: for non-empty text and chunk_size > overlap >= 0, every chunk that
\* chunk_text returns has at most chunk_size + overlap characters.
C18_ChunkLengthBound ==
    Chunked /\ chunker.text # << >>
    => \A j \in 1..Len(chunker.final_chunks) :
          Len(chunker.final_chunks[j]) <= chunker.chunk_size + chunker.overlap

\* The text is one contiguous token (no white space, hence none of the
\* separators) that is longer than chunk_size.
LongToken ==
    /\ chunker.pc # "idle"
    /\ Len(chunker.text) > chunker.chunk_size
    /\ \A j \in 1..Len(chunker.text) : chunker.text[j] \notin Whitespace

Progress ==
    IF chunker.pc = "called" THEN 0
    ELSE IF chunker.pc = "merge" THEN chunker.i
    ELSE Len(chunker.raw_parts) + 2

C20_OverlapCarried ==
    Chunked /\ chunker.overlap > 0
    => \A j \in 2..Len(chunker.final_chunks) :
          LET prev == chunker.final_chunks[j - 1]
              carried == Last(prev, chunker.overlap)
          IN  /\ Len(carried) =
                    (IF chunker.overlap < Len(prev)
                     THEN chunker.overlap ELSE Len(prev))
              /\ Len(chunker.final_chunks[j]) >= Len(carried)
              /\ Upto(chunker.final_chunks[j], Len(carried)) = carried

\* Three chunks were returned; one of them is shorter than the overlap and is
\* carried over whole, and another is carried over in part.
C20_Witness ==
    /\ Chunked /\ chunker.overlap > 0
    /\ \E j \in 2..Len(chunker.final_chunks) :
          Len(chunker.final_chunks[j - 1]) < chunker.overlap
    /\ \E j \in 2..Len(chunker.final_chunks) :
          /\ Len(chunker.final_chunks[j - 1]) > chunker.overlap
          /\ \E a \in 1..Len(chunker.final_chunks[j - 1]),
                b \in 1..Len(chunker.final_chunks[j - 1]) :
                chunker.final_chunks[j - 1][a] # chunker.final_chunks[j - 1][b]

\* The string has no character other than white space (the empty string
\* included).
IsBlank(s) == \A j \in 1..Len(s) : s[j] \in Whitespace

NonWs(s) == SelectSeq(s, LAMBDA c : c \notin Whitespace)

\* The concatenation of a list of strings.
RECURSIVE Concat(_)
Concat(ss) == IF ss = << >> THEN << >> ELSE Head(ss) \o Concat(Tail(ss))

\* a can be obtained from b by deleting characters.
RECURSIVE IsSubseq(_, _)
IsSubseq(a, b) ==
    IF a = << >> THEN TRUE
    ELSE IF b = << >> THEN FALSE
    ELSE IF Head(a) = Head(b) THEN IsSubseq(Tail(a), Tail(b))
    ELSE IsSubseq(a, Tail(b))

\* Each chunk returned without the overlap carried over from the chunk before
\* it (the last `overlap` characters of that chunk).
Remainders ==
    [j \in 1..Len(chunker.final_chunks) |->
        IF j = 1 \/ chunker.overlap = 0 THEN chunker.final_chunks[j]
        ELSE From(chunker.final_chunks[j],
                  Len(Last(chunker.final_chunks[j - 1], chunker.overlap)))]

\* C22 as stated: the remainders of the chunks, concatenated, are the input
\* text up to white space.
C22_Original ==
    Chunked => NonWs(Concat(Remainders)) = NonWs(chunker.text)

\* C22, amended: chunk_text loses no content and keeps document order: the
\* characters of the input that are not white space appear, in their order,
\* in the concatenated remainders of the chunks.  With overlap = 0 the
\* remainders are the input up to white space; with overlap > 0 characters
\* can occur again (the pieces of a character split overlap one another).
C22_NoContentLost ==
    Chunked
    => /\ IsSubseq(NonWs(chunker.text), NonWs(Concat(Remainders)))
       /\ chunker.overlap = 0
          => NonWs(Concat(Remainders)) = NonWs(chunker.text)

\* A text of two different letters was cut with an overlap into three chunks
\* whose remainders hold more characters than the text.
C22_Witness ==
    /\ Chunked /\ chunker.overlap > 0
    /\ Len(chunker.final_chunks) >= 3
    /\ \E a \in 1..Len(chunker.text), b \in 1..Len(chunker.text) :
          chunker.text[a] = "a" /\ chunker.text[b] = "b"
    /\ Len(NonWs(Concat(Remainders))) > Len(NonWs(chunker.text))

\* search_knowledge_base has returned.
Searched == search.pc = "returned"

\* The position of a row in the list of accumulated rows.
FoundAt(row) == CHOOSE i \in 1..Len(search.results) : search.results[i] = row

\* C23: the accumulated rows are re-ranked by a stable descending sort on
\* the number of distinct lower-cased query terms that occur in the
\* lower-cased content: the re-ranked list holds the rows found, a row with
\* a higher score precedes every row with a lower one, and rows of equal
\* score keep the order in which the searches returned them.
C23_StableRerank ==
    (Searched /\ search.results # << >>)
    => LET terms == query_terms(search.query)
           docs == search.docs
       IN  /\ Len(docs) = Len(search.results)
           /\ Range(docs) = Range(search.results)
           /\ \A i, j \in 1..Len(docs) :
                i < j => /\ score_doc(docs[i], terms) >= score_doc(docs[j], terms)
                         /\ score_doc(docs[i], terms) = score_doc(docs[j], terms)
                            => FoundAt(docs[i]) < FoundAt(docs[j])

\* Three rows were found, one of them moved in front of two rows of an equal,
\* lower score that were found before it.
C23_Witness ==
    /\ Searched
    /\ Len(search.results) = 3
    /\ LET terms == query_terms(search.query)
       IN  /\ score_doc(search.results[1], terms) = score_doc(search.results[2], terms)
           /\ score_doc(search.results[3], terms) > score_doc(search.results[1], terms)
           /\ search.docs = <<search.results[3], search.results[1],
                              search.results[2]>>

\* C24: the context is built from exactly the first min(limit, number of
\* accumulated rows) rows of the re-ranked list, in that order, and never
\* from more than `limit` rows, whatever integer the limit is (from no row
\* when the limit is zero or negative).
C24_ContextBounded ==
    (Searched /\ search.results # << >>)
    => LET n == IF search.limit < Len(search.docs) THEN search.limit
                ELSE Len(search.docs)
       IN  /\ search.top_docs = (IF n <= 0 THEN << >> ELSE SubSeq(search.docs, 1, n))
           /\ search.context = format_context(search.top_docs)
           /\ Len(search.top_docs) <= (IF search.limit > 0 THEN search.limit ELSE 0)

\* C25: the candidate subjects are the literal subject first, then the
\* synonyms registered under its trimmed lower-cased key, in the order of the
\* table, and no value occurs twice; a subject whose key is not in the table
\* has itself as its only candidate.
C25_CandidateList ==
    search.pc \in {"searching", "collected", "returned"}
    => LET subjects == search.search_subjects
           k == lower(strip(search.subject))
       IN  /\ subjects[1] = search.subject
           /\ \A i, j \in 1..Len(subjects) : subjects[i] = subjects[j] => i = j
           /\ IF k \in DOMAIN SUBJECT_MAP
              THEN /\ Range(subjects) = Range(SUBJECT_MAP[k]) \cup {search.subject}
                   /\ \A i, j \in 2..Len(subjects) :
                        i < j => \E a, b \in 1..Len(SUBJECT_MAP[k]) :
                                   /\ a < b
                                   /\ SUBJECT_MAP[k][a] = subjects[i]
                                   /\ SUBJECT_MAP[k][b] = subjects[j]
              ELSE subjects = <<search.subject>>

\* A call for the subject " maths " has returned: its candidates were the
\* literal subject and the three synonyms of "maths".
C25_Witness ==
    /\ Searched
    /\ search.subject = <<" ", "m", "a", "t", "h", "s", " ">>
    /\ search.search_subjects = <<search.subject, Mathematics, Math, Maths>>

\* C26: if the store holds rows that match the query (and the caller's
\* filter) under a tag that is a synonym registered for the subject's key,
\* and limit >= 1, a call that returns returns a context that is not empty.
C26_SynonymFound ==
    (/\ Searched
     /\ search.limit >= 1
     /\ lower(strip(search.subject)) \in DOMAIN SUBJECT_MAP
     /\ \E i \in 1..Len(search.kb) :
          /\ search.kb[i].subject
                \in Range(SUBJECT_MAP[lower(strip(search.subject))])
          /\ search.filter \in {"None", search.kb[i].chapter})
    => search.context # << >>

\* The subject "Mathematics" was searched in a store whose rows are all
\* tagged "Maths", and a context was returned.
C26_Witness ==
    /\ Searched
    /\ search.subject = Mathematics
    /\ search.kb # << >>
    /\ \A i \in 1..Len(search.kb) : search.kb[i].subject = Maths
    /\ search.context # << >>

\* C27: when every search issued for the candidate subjects has returned no
\* rows, search_knowledge_base returns the empty string and raises nothing.
C27_NothingFound ==
    [][(search.pc = "collected" /\ search.results = << >>)
       => (search'.pc = "returned" /\ search'.context = << >>)]_vars

\* A store with rows was searched under several candidate subjects, none of
\* the searches returned a row, and the call returned.
C27_Witness ==
    /\ Searched
    /\ search.kb # << >>
    /\ Len(search.search_subjects) > 1
    /\ search.s = Len(search.search_subjects) + 1
    /\ search.results = << >>
    /\ search.context = << >>

\* The number of positions of a text whose character is in a set.
CountIn(text, chars) == Cardinality({i \in 1..Len(text) : text[i] \in chars})

\* C28: parse_pdf decides the extraction mode once, before the first page,
\* from the sampled text (stripped of the white space around it): OCR if and
\* only if the sample is shorter than OCR_MIN_TEXT_LENGTH, or fewer than
\* OCR_MIN_ENGLISH_DENSITY of its characters are Latin letters, or more than
\* OCR_MAX_GARBAGE_RATIO of them are replacement characters.  Every page
\* produced is produced in that mode, in page order, and a call that is not
\* cancelled produces every page of the document.
C28_OneModeForAll ==
    parser.pc \in {"pages", "closed"}
    => LET sample == parser.text_stripped
           ocr == \/ Len(sample) < 50
                  \/ 10 * CountIn(sample, Letters) < 3 * Len(sample)
                  \/ 20 * CountIn(sample, {Replacement}) > Len(sample)
       IN  /\ parser.use_ocr <=> ocr
           /\ \A j \in 1..Len(parser.pages) :
                /\ parser.pages[j].page = j
                /\ parser.pages[j].mode = (IF ocr THEN "ocr" ELSE "text")
           /\ Len(parser.pages) <= parser.total_pages
           /\ (parser.pc = "closed" /\ ~parse_cancelled)
              => Len(parser.pages) = parser.total_pages

\* A document of three pages with a sample of length 10 was read to its end:
\* all three pages were produced by OCR.
C28_Witness ==
    /\ parser.pc = "closed"
    /\ parser.total_pages = 3
    /\ Len(parser.text_stripped) = 10
    /\ Len(parser.pages) = 3
    /\ \A j \in 1..3 : parser.pages[j].mode = "ocr"

\* Run r has created a record with start_job and its task has not ended, but
\* the record under its key holds another page count: a later start_job for
\* the same key has re-created the record for another run.
Superseded(r) ==
    /\ Started(r)
    /\ run[r].err # "page_count"
    /\ key(r) \in DOMAIN jobs
    /\ jobs[key(r)].total_pages # run[r].n

\* C29: a job record is mutated only by the task that created it and by
\* cancel requests: no step of an ingestion run (its update_progress,
\* complete_job or fail_job) modifies a record that a later start_job for the
\* same key has re-created for another run.
C29_OwnRecordOnly ==
    [][\A r \in Runs :
         (Superseded(r) /\ pc'[r] # pc[r])
         => jobs'[key(r)] = jobs[key(r)]]_vars

\* The second run was requested for the book of the first while the first
\* had not ended, and both have run to completion.
Overlapped ==
    /\ pc[1] = "done" /\ pc[2] = "done"
    /\ run[1].key = run[2].key
    /\ 1 \notin run[2].pred
    /\ run[1].result = "completed" /\ run[2].result = "completed"

\* C30: if a second ingestion run for a book is started while a first run for
\* that book is still in flight, then after both have ended the store holds
\* for the book only rows inserted by the second run.
C30_SecondRunWins ==
    Overlapped => RowsOfBook(store, run[2].key) \subseteq RowsOfRun(store, 2)

\* Run r is inside _process_batch: its window is being embedded or stored.
InWindow(r) == pc[r] \in {"embed", "insert", "sleep"}

\* C31: cancellation is cooperative and bounded.  Once cancel_job has
\* returned true for the key of a run that is under way, the run starts no
\* further window; a window that is in flight at that moment is not aborted
\* (it goes on to its insert and returns to the loop), and rows of the run
\* reach the store only by the insert of that window.
C31_CancelBounded ==
    [][\A r \in Runs :
         run[r].asked =>
            /\ pc'[r] = "embed" => pc[r] = "embed"
            /\ (InWindow(r) /\ pc'[r] # pc[r])
               => pc'[r] \in {"insert", "sleep", AfterBatch(r)}
            /\ RowsOfRun(store', r) # RowsOfRun(store, r)
               => pc[r] = "insert"]_vars

\* The record of book k is in a terminal condition: completed, failed, or
\* flagged cancelled.
Terminal(k) ==
    /\ Recorded(k)
    /\ \/ jobs[k].status \in {"completed", "failed"}
       \/ jobs[k].cancelled

\* C32: every started background ingestion task eventually terminates with
\* the record of its book in a terminal condition (status "completed",
\* status "failed", or cancelled = true with the run stopped), every awaited
\* call returning or failing in finite time.
C32_Terminates ==
    \A r \in Runs : (pc[r] = "queued") ~> (pc[r] = "done" /\ Terminal(key(r)))


\* The step in which run r's await of delete_book ends, and a step that
\* adds rows of run r to the store.
Deletes(r) == pc[r] = "delete" /\ pc'[r] # "delete"
Inserts(r) == RowsOfRun(store', r) \ RowsOfRun(store, r) # {}

\* C33: within one run the delete of the chunks stored under the book key
\* comes after start_job (the record is the one start_job has just written)
\* and before the first insert of the run (the run has no row yet and rows
\* are only added by its insert step, which follows); a successful delete
\* leaves no chunk under the key, and after a failed delete no chunk of the
\* run is inserted.
C33_DeleteOrder ==
    [][\A r \in Runs :
         /\ Deletes(r) =>
               /\ Recorded(key(r))
               /\ jobs[key(r)] = start_job(jobs, key(r), run[r].n)[key(r)]
               /\ RowsOfRun(store, r) = {}
               /\ run[r].total_chunks = 0
               /\ IF pc'[r] = "open"
                  THEN RowsOfBook(store', key(r)) = {}
                  ELSE store' = store /\ pc'[r] = "except"
         /\ Inserts(r) => pc[r] = "insert" /\ run[r].err # "delete"
         /\ run[r].err = "delete" => pc'[r] \in {"except", "done"}]_vars

\* The delete of one run fails while chunks that an earlier run of the same
\* book inserted after its own delete are in the store.
C33_Witness ==
    \E r \in Runs, q \in Runs :
        /\ pc[r] = "except"
        /\ run[r].err = "delete"
        /\ key(q) = key(r)
        /\ RowsOfRun(store, q) # {}

\* The pages of run r that have been handed to _process_batch: the pages
\* yielded so far less those waiting in the text buffer and the one the
\* loop body has in page_text and has not appended yet.
Handed(r) ==
    run[r].i - run[r].b - (IF pc[r] \in {"progress", "body"} THEN 1 ELSE 0)

\* The run enters _process_batch / comes back from it.
EntersWindow(r) == pc[r] \notin {"embed", "insert", "sleep"} /\ pc'[r] = "embed"
LeavesWindow(r) == InWindow(r) /\ ~InWindow(r)'

\* C34: in standard mode with no cancellation every page yielded by
\* parse_pdf is handed to _process_batch in exactly one window, the windows
\* come in page order, each holds at most INGESTION_BATCH_SIZE pages, and
\* the buffer is emptied after each window, so that it never holds more than
\* INGESTION_BATCH_SIZE pages.
\*   - the buffer holds between 0 and INGESTION_BATCH_SIZE pages;
\*   - a window is entered with 1..INGESTION_BATCH_SIZE pages in the buffer,
\*     a window before the end of the pages with exactly that many; it
\*     starts at the page after the last page handed over before;
\*   - the pages handed over grow only when a window is left, by that
\*     window, and then the buffer is empty;
\*   - the windows stored for the run are pairwise disjoint;
\*   - when the run completes, every page of the document has been yielded
\*     and handed over.
C34_Windows ==
    [][\A r \in Runs :
         (run[r].mode = "standard" /\ run'[r].mode = "standard") =>
            /\ run'[r].b \in 0..INGESTION_BATCH_SIZE
            /\ EntersWindow(r) =>
                  /\ run'[r].b \in 1..INGESTION_BATCH_SIZE
                  /\ ~run'[r].final => run'[r].b = INGESTION_BATCH_SIZE
                  /\ WindowLo(r)' = Handed(r) + 1
                  /\ WindowHi(r)' = run'[r].i
                  /\ \A c \in RowsOfRun(store, r) : c.hi < WindowLo(r)'
            /\ (Handed(r)' # Handed(r) /\ pc'[r] # "done") =>
                  /\ LeavesWindow(r)
                  /\ Handed(r)' = WindowHi(r)
                  /\ run'[r].b = 0
            /\ LeavesWindow(r) => run'[r].b = 0 /\ Handed(r)' = WindowHi(r)
            /\ \A c \in RowsOfRun(store', r), d \in RowsOfRun(store', r) :
                  /\ c.hi - c.lo + 1 \in 1..INGESTION_BATCH_SIZE
                  /\ c # d => (c.hi < d.lo \/ d.hi < c.lo)
            /\ (pc'[r] = "done" /\ run'[r].result = "completed") =>
                  /\ run[r].i = run[r].n
                  /\ Handed(r) = run[r].n]_vars

\* A standard run is in its second or a later window, an earlier window of
\* the run being stored.
C34_Witness ==
    \E r \in Runs :
        /\ run[r].mode = "standard"
        /\ pc[r] = "embed"
        /\ WindowLo(r) > 1
        /\ RowsOfRun(store, r) # {}

\* Chunk c is in both the old and the new state a task of the same call.
SameCall(c) ==
    /\ c \in DOMAIN task
    /\ c \in DOMAIN task'
    /\ batch.pc = "gather"
    /\ batch'.pc # "idle"

\* C35: the embedding of one chunk is attempted at most `retries` times.
\* After a successful attempt the task has its record and makes no further
\* attempt; a failed attempt other than the last is followed by a sleep of
\* 2^attempt seconds (1 after the first failure, 2 after the second), and
\* a sleeping task holds no permit; after the last failed attempt the task
\* returns None and the chunk is not among the records.
C35_EmbedAttempts ==
    [][/\ \A c \in DOMAIN task' :
             /\ task'[c].fails <= retries
             /\ task'[c].st = "embedding" => task'[c].fails < retries
             /\ task'[c].st = "backoff" =>
                   /\ task'[c].fails \in 1..(retries - 1)
                   /\ task'[c].delay = 2 ^ (task'[c].fails - 1)
             /\ task'[c].st = "None" => task'[c].fails = retries
       /\ sem' + Cardinality(InFlight') =
             (IF task' = NoTasks THEN 0 ELSE MAX_EMBEDDING_CONCURRENCY)
       /\ \A c \in DOMAIN task :
             SameCall(c) =>
                /\ task[c].st \in {"record", "None"} => task'[c] = task[c]
                /\ (task[c].st = "embedding" /\ task'[c].st # "embedding") =>
                      \/ task'[c].st = "record" /\ task'[c].fails = task[c].fails
                      \/ /\ task'[c].st \in {"backoff", "None"}
                         /\ task'[c].fails = task[c].fails + 1
                         /\ sem' = sem + 1
                /\ (task[c].st # "embedding" /\ task'[c].st = "embedding") =>
                      /\ task[c].st = "ready"
                      /\ task[c].fails = task[c].attempt
       /\ \A j \in 1..Len(batch'.records) :
             task'[batch'.records[j]].st = "record"]_vars

\* One chunk has failed `retries` times and yields no record while another
\* one sleeps 2 seconds after its second failure and a third has a record.
C35_Witness ==
    \E c \in DOMAIN task, d \in DOMAIN task, e \in DOMAIN task :
        /\ task[c].st = "None" /\ task[c].fails = retries
        /\ task[d].st = "backoff" /\ task[d].delay = 2
        /\ task[e].st = "record" /\ task[e].fails = 1

\* One attempt of the insert of the window's records is made in this step.
InsertAttempt == batch.pc = "insert" /\ batch'.pc # "insert"

\* C36: the records of one window are passed to the insert at least once
\* and at most `retries` times; no insert of the window is attempted after
\* one has been acknowledged; _process_batch returns the number of inserted
\* records on acknowledgement and 0 when every attempt has failed.
\*   - gather with at least one record is followed by the first attempt;
\*   - the attempts are numbered 0..retries-1, one more after each sleep;
\*   - an attempt is made only while nothing is acknowledged; it ends the
\*     call with the records stored and their number returned, or it fails
\*     and is followed by a sleep, the last one by the return of 0.
C36_InsertAttempts ==
    [][/\ batch'.attempt \in 0..(retries - 1)
       /\ (batch.pc = "gather" /\ batch'.pc # "gather") =>
             /\ batch'.attempt = 0
             /\ Embedded(task) # << >> =>
                   batch'.pc = "insert" /\ batch'.records = Embedded(task)
             /\ Embedded(task) = << >> =>
                   batch'.pc = "returned" /\ batch'.ret = 0 /\ ~batch'.acked
       /\ InsertAttempt =>
             /\ ~batch.acked
             /\ batch.records # << >>
             /\ batch'.records = batch.records
             /\ \/ /\ batch'.acked
                   /\ batch'.pc = "returned"
                   /\ batch'.stored = batch.records
                   /\ batch'.ret = Len(batch.records)
                \/ /\ ~batch'.acked
                   /\ batch'.stored = << >>
                   /\ IF batch.attempt < retries - 1
                      THEN batch'.pc = "sleep" /\ batch'.attempt = batch.attempt
                      ELSE batch'.pc = "returned" /\ batch'.ret = 0
       /\ batch.pc = "sleep" =>
             \/ batch' = batch
             \/ batch'.pc = "insert" /\ batch'.attempt = batch.attempt + 1
       /\ batch'.acked => batch'.pc = "returned"]_vars

\* The insert is acknowledged at the last allowed attempt, after two
\* failures, and the call returns the number of records of the window.
C36_Witness ==
    /\ batch.pc = "returned"
    /\ batch.acked
    /\ batch.attempt = retries - 1
    /\ batch.ret = Len(batch.records)
    /\ batch.ret >= 2

\* The chunk_index values of a list of records, which the model writes as
\* the list itself: a record is named by the index i that enumerate(chunks)
\* gave its task, and its content is chunks[i].
InOrder(seq) ==
    /\ \A j \in 1..Len(seq) :
          seq[j] \in DOMAIN task /\ task[seq[j]].st = "record"
    /\ \A j \in 1..Len(seq), k \in 1..Len(seq) : j < k => seq[j] < seq[k]

\* C37: whatever order the embedding calls of one window complete in, each
\* record handed to the store carries as chunk_index the position of its
\* content in the chunker's output (it is the index of a task that ended
\* with a record), the records of the window have pairwise distinct
\* chunk_index values and are listed in increasing chunk_index order, and
\* every embedded chunk of the window is among them.
C37_ChunkIndex ==
    /\ InOrder(batch.records)
    /\ InOrder(batch.stored)
    /\ batch.pc \in {"insert", "sleep"} \/ batch.acked =>
          {batch.records[j] : j \in 1..Len(batch.records)}
             = {c \in DOMAIN task : task[c].st = "record"}
    /\ batch.acked => batch.stored = batch.records

\* The records of chunks 0 and 2 are stored in that order; chunk 0 was
\* embedded at its last attempt, after two sleeps, chunk 2 at its first, and
\* chunk 1 has no record.
C37_Witness ==
    /\ batch.acked
    /\ batch.stored = <<0, 2>>
    /\ task[0].fails = retries - 1
    /\ task[1].st = "None"
    /\ task[2].fails = 0

\* C38: in AI mode a page is chunked, embedded and stored only if it is
\* classified as instructional: a window is entered, and rows are inserted,
\* only for a page that came back with is_instructional_content true, and
\* the rows carry the page they came from.
C38_OnlyInstructional ==
    [][\A r \in Runs :
         run[r].mode = "ai" =>
            /\ EntersWindow(r) => run'[r].kind = "instr"
            /\ Inserts(r) =>
                  /\ run[r].kind = "instr"
                  /\ \A c \in RowsOfRun(store', r) \ RowsOfRun(store, r) :
                        c.lo = run[r].i /\ c.hi = run[r].i]_vars

\* A vector search is issued and answered in this step.
Searches == search.pc = "searching" /\ search'.pc \in {"searching", "collected"}

\* The rows accumulated are enough for the loop over the candidates to stop.
Enough(rows, limit) == Len(rows) >= limit + OVER_FETCH

C40_CompletedAllPages ==
    \A k \in DOMAIN jobs :
        jobs[k].status = "completed" => jobs[k].current_page = jobs[k].total_pages

============================================================================
